---------------------------- MODULE Spec2Model ----------------------------
(***************************************************************************)
(* Paywall canister (Motoko actor `Paywall`): paywall registry, payment    *)
(* orchestration with protocol fee and multi-destination split, access     *)
(* sessions, salted subaccount derivation and the upgrade hooks.           *)
(*                                                                         *)
(* Every `await` of the actor is a message boundary: one action of this    *)
(* module is the code that runs between two such boundaries.  The ICP      *)
(* ledger and the cycles minting canister are external: their replies are  *)
(* chosen nondeterministically among the variants their declared result    *)
(* types allow, the ledger keeping real balances.                          *)
(***************************************************************************)
EXTENDS Integers, Sequences, FiniteSets, TLC

VARIABLES
    paywallConfigs,        \* transient HashMap<Text, PaywallConfig>
    paidStatuses,          \* transient HashMap<Principal, HashMap<Text, Int>>
    ownedPaywalls,         \* transient HashMap<Principal, [Text]>
    paywallConfigEntries,  \* stable [(Text, PaywallConfig)]
    paidStatusEntries,     \* stable [(Principal, [(Text, Int)])]
    ownedPaywallsEntries,  \* stable [(Principal, [Text])]
    nextPaywallId,         \* stable Nat
    salt,                  \* stable [Nat8]
    now,                   \* Time.now() of the replica
    balances,              \* the ledger: subaccount of the canister -> e8s
    calls,                 \* in-flight update calls, one record per call slot
    last,                  \* the call that completed most recently, with its result
    grants,                \* history: per (identity, paywall) the successful payments
    env                    \* the run: its deposits, upgrades, updates and payments so far, its budgets,
                           \* and the page of the visitor where the frontend script runs

vars == <<paywallConfigs, paidStatuses, ownedPaywalls, paywallConfigEntries,
          paidStatusEntries, ownedPaywallsEntries, nextPaywallId, salt, now,
          balances, calls, last, grants, env>>

canister == <<paywallConfigs, paidStatuses, ownedPaywalls, paywallConfigEntries,
              paidStatusEntries, ownedPaywallsEntries, nextPaywallId, salt>>

-----------------------------------------------------------------------------
(* Bounds of the model *)

MaxPaywalls == 1      \* paywalls created per run
MaxTime == 2          \* the clock ticks up to MaxTime
MaxCalls == 1         \* payment calls in flight at once
MaxUpgrades == 1      \* upgrades per run
MaxDeposits == 1      \* deposits to the ledger per run
MaxUpdates == 1       \* updatePaywall calls per run
MaxPayments == 2      \* payFromBalance / verifyPayment calls per run

-----------------------------------------------------------------------------
(* Program constants *)

ledgerFee == 10000

\* the minimum protocol fee the deployment check and the README state
paywallMinFeeE8s == 100000

MaxDestinations == 3

SubaccountLen == 32

CanisterIdLen == 10

MaxPrincipalInSubaccount == 31

-----------------------------------------------------------------------------
(* Generic helpers: base-library arrays and hash maps *)

EmptyMap == [x \in {} |-> 0]

\* HashMap.put
Put(m, k, v) == [x \in (DOMAIN m) \cup {k} |-> IF x = k THEN v ELSE m[x]]

\* HashMap.get as an option: <<>> is null, <<v>> is ?v
Get(m, k) == IF k \in DOMAIN m THEN <<m[k]>> ELSE <<>>

RECURSIVE SetToSeq(_)
\* the iteration order of HashMap.entries(): some fixed order of the keys
SetToSeq(S) ==
    IF S = {} THEN <<>>
    ELSE LET x == CHOOSE y \in S : TRUE IN <<x>> \o SetToSeq(S \ {x})

\* Iter.toArray(m.entries())
Entries(m) == LET ks == SetToSeq(DOMAIN m) IN [i \in 1..Len(ks) |-> <<ks[i], m[ks[i]]>>]

\* mutant: the loop over the entries stops after the first one
FromEntries_FirstOnly(es, m) ==
    IF es = <<>> THEN m ELSE Put(m, Head(es)[1], Head(es)[2])

RECURSIVE FromEntries(_, _)
\* for ((k, v) in entries.vals()) { m.put(k, v) }
FromEntries(es, m) ==
    IF es = <<>> THEN m
    ELSE FromEntries(Tail(es), Put(m, Head(es)[1], Head(es)[2]))

RECURSIVE SumSeq(_)
SumSeq(s) == IF s = <<>> THEN 0 ELSE Head(s) + SumSeq(Tail(s))

Max(a, b) == IF a >= b THEN a ELSE b

\* floor(a * p / 100) for naturals a, p, computed without forming a * p
\* (a = 100 q + r gives a * p / 100 = q * p + (r * p) / 100 exactly)
MulDiv100(a, p) == (a \div 100) * p + ((a % 100) * p) \div 100

-----------------------------------------------------------------------------
(* Principals and texts as bytes *)

Users == {"u1", "u2"}

\* who calls what: u1 creates paywalls, u2 pays, both call updatePaywall
Creators == {"u1"}

Payers == {"u2"}

\* Principal.toBlob: self-authenticating principals have 29 bytes, the last one 2,
\* canister ids 10; the bytes of q1 are those of p1 moved up by one position
PrincipalBlob(p) ==
    CASE p = "u1" -> [i \in 1..29 |-> IF i = 29 THEN 2 ELSE 17]
      [] p = "u2" -> [i \in 1..29 |-> IF i = 29 THEN 2 ELSE 18]
      [] p = "d1" -> [i \in 1..29 |-> IF i = 29 THEN 2 ELSE 33]
      [] p = "c1" -> [i \in 1..CanisterIdLen |-> IF i = 8 THEN 7 ELSE IF i > 8 THEN 1 ELSE 0]
      [] p = "p1" -> [i \in 1..29 |-> IF i = 1 THEN 48 ELSE IF i = 29 THEN 2 ELSE 18]
      [] p = "q1" -> [i \in 1..29 |-> IF i >= 28 THEN 2 ELSE 18]
      [] OTHER    -> <<4>>

RECURSIVE NatToText(_)
\* Nat.toText followed by Text.encodeUtf8: the decimal digits as ASCII bytes
NatToText(n) ==
    IF n < 10 THEN <<48 + n>> ELSE NatToText(n \div 10) \o <<48 + (n % 10)>>

\* Text.encodeUtf8("pw-" # Nat.toText(n)): the id createPaywall hands out
PaywallIdText(n) == <<112, 119, 45>> \o NatToText(n)

\* Text.encodeUtf8("wallet")
WalletText == <<119, 97, 108, 108, 101, 116>>

RECURSIVE FoldBytes_Overwrite(_, _, _)
\* mutant: a byte replaces what its slot holds instead of being added to it
FoldBytes_Overwrite(payload, index, output) ==
    IF index = Len(payload) THEN output
    ELSE FoldBytes_Overwrite(payload, index + 1,
            [output EXCEPT ![(index % SubaccountLen) + 1] = payload[index + 1]])

RECURSIVE FoldBytes(_, _, _)
\* for (byte in payload.vals()) { output[index % 32] := (output[slot] + byte) % 256 }
FoldBytes(payload, index, output) ==
    IF index = Len(payload) THEN output
    ELSE LET slot == index % SubaccountLen
         IN FoldBytes(payload, index + 1,
                [output EXCEPT ![slot + 1] = (output[slot + 1] + payload[index + 1]) % 256])

ZeroSubaccount == [i \in 1..SubaccountLen |-> 0]

\* mutant: the paywall id is not part of the payload, the wallet purpose is
deriveSubaccount_WalletPurpose(saltBlob, paywallId, user) ==
    FoldBytes(saltBlob \o (WalletText \o PrincipalBlob(user)), 0, ZeroSubaccount)

\* deriveSubaccount, after its await of getSalt returned saltBlob
deriveSubaccount(saltBlob, paywallId, user) ==
    FoldBytes(saltBlob \o (PaywallIdText(paywallId) \o PrincipalBlob(user)), 0, ZeroSubaccount)

\* deriveUserSubaccount, after its await of getSalt returned saltBlob
deriveUserSubaccount(saltBlob, user) ==
    FoldBytes(saltBlob \o (WalletText \o PrincipalBlob(user)), 0, ZeroSubaccount)

\* Random.blob(): 32 bytes from the management canister
RandomBlobs == { [i \in 1..SubaccountLen |-> 7], [i \in 1..SubaccountLen |-> (i * 5) % 256] }

\* buildMintSubaccount: null (<<>>) when the principal does not fit
buildMintSubaccount(destination) ==
    LET principalBytes == PrincipalBlob(destination)
    IN IF Len(principalBytes) > MaxPrincipalInSubaccount THEN <<>>
       ELSE << [i \in 1..SubaccountLen |->
                  IF i = 1 THEN Len(principalBytes)
                  ELSE IF i - 1 <= Len(principalBytes) THEN principalBytes[i - 1] ELSE 0] >>

\* buildTopUpSubaccount: the same layout, written with index starting at 1
buildTopUpSubaccount(destination) ==
    LET principalBytes == PrincipalBlob(destination)
    IN IF Len(principalBytes) > MaxPrincipalInSubaccount THEN <<>>
       ELSE << [i \in 1..SubaccountLen |->
                  IF i = 1 THEN Len(principalBytes)
                  ELSE IF i - 1 <= Len(principalBytes) THEN principalBytes[i - 1] ELSE 0] >>

\* mutant: no destination is taken for a canister
isCanister_Never(destination) == FALSE

isCanister(destination) == Len(PrincipalBlob(destination)) = CanisterIdLen

-----------------------------------------------------------------------------
(* Fee, validation, access query *)

\* mutant: the percentages are not summed
validateDestinations_NoSum(destinations) ==
    IF Len(destinations) = 0 THEN "At least one destination is required"
    ELSE IF Len(destinations) > MaxDestinations THEN "Maximum 3 destinations allowed"
    ELSE "ok"

\* mutant: the number of destinations is not limited
validateDestinations_NoMax(destinations) ==
    IF Len(destinations) = 0 THEN "At least one destination is required"
    ELSE LET percentSum == SumSeq([i \in 1..Len(destinations) |-> destinations[i].percentage])
         IN IF percentSum # 100 THEN "Destination percentages must sum to 100" ELSE "ok"

\* validateDestinations: "ok", or the message of the Debug.trap it ends in
validateDestinations(destinations) ==
    IF Len(destinations) = 0 THEN "At least one destination is required"
    ELSE IF Len(destinations) > MaxDestinations THEN "Maximum 3 destinations allowed"
    ELSE LET percentSum == SumSeq([i \in 1..Len(destinations) |-> destinations[i].percentage])
         IN IF percentSum # 100 THEN "Destination percentages must sum to 100" ELSE "ok"

\* mutant: one percent without the minimum
calculateFee_NoMinimum(price_e8s) == price_e8s \div 100

calculateFee(price_e8s) == Max(price_e8s \div 100, ledgerFee)

\* mutant: the fee leg's own ledger fee is not counted
requiredBalance_NoFeeLeg(config) ==
    config.price_e8s + (ledgerFee * Len(config.destinations))

\* mutant: the ledger fees of the transfers are not counted at all
requiredBalance_PriceOnly(config) == config.price_e8s

\* requiredBalance of payFromBalance / verifyPayment
requiredBalance(config) ==
    LET transferCount == Len(config.destinations) + 1
    IN config.price_e8s + (ledgerFee * transferCount)

\* mutant: a session still counts at the instant of its expiry
NotExpired_Inclusive(expiry, time) == expiry >= time

\* the comparison of hasAccess
NotExpired(expiry, time) == expiry > time

\* hasAccess(user, paywallId), a query
hasAccess(user, paywallId) ==
    IF user \notin DOMAIN paidStatuses THEN FALSE
    ELSE LET userMap == paidStatuses[user]
         IN IF paywallId \notin DOMAIN userMap THEN FALSE
            ELSE NotExpired(userMap[paywallId], now)

-----------------------------------------------------------------------------
(* Inputs *)

Dest(d, pct, conv) == [destination |-> d, percentage |-> pct, convertToCycles |-> conv]

\* destination lists that pass validateDestinations
ValidDestinationLists ==
    { <<Dest("d1", 100, FALSE)>>,
      <<Dest("d1", 50, FALSE), Dest("c1", 50, TRUE)>>,
      <<Dest("d1", 33, TRUE), Dest("c1", 33, FALSE), Dest("d1", 34, FALSE)>> }

\* destination lists that validateDestinations rejects: none, four, sums 99 and 101
InvalidDestinationLists ==
    { <<>>,
      <<Dest("d1", 99, FALSE)>>,
      <<Dest("d1", 60, FALSE), Dest("c1", 41, FALSE)>>,
      <<Dest("d1", 25, FALSE), Dest("d1", 25, FALSE), Dest("d1", 25, FALSE), Dest("d1", 25, FALSE)>> }

\* prices e8s: below the fee, equal to the fee (net 0), and above it
Prices == {9999, 10000, 1000001}

Durations == {1, 2}

Config(price, duration, dests) ==
    [price_e8s |-> price, target_canister |-> "c1",
     session_duration_ns |-> duration, destinations |-> dests]

\* the configs createPaywall is called with
CreateConfigs ==
    { Config(1000001, 2, d) : d \in InvalidDestinationLists }
    \cup { Config(1000001, 2, <<Dest("d1", 50, FALSE), Dest("c1", 50, TRUE)>>),
           Config(10000, 2, <<Dest("d1", 100, FALSE)>>) }

\* PaywallUpdate: each field an option, <<>> for null and <<v>> for ?v
Update(price, target, duration, dests) ==
    [price_e8s |-> price, target_canister |-> target,
     session_duration_ns |-> duration, destinations |-> dests]

\* the partial updates updatePaywall is called with
Updates ==
    { Update(<<>>, <<>>, <<1>>, <<>>),
      Update(<<9999>>, <<>>, <<>>, <<>>),
      Update(<<>>, <<>>, <<>>, <<<<Dest("c1", 100, TRUE)>>>>),
      Update(<<10000>>, <<"d1">>, <<1>>, <<<<Dest("d1", 60, FALSE), Dest("c1", 41, FALSE)>>>>) }

\* ids callers pass: every id createPaywall hands out, and one it does not
PaywallIds == 0..MaxPaywalls

CallIds == 1..MaxCalls

\* amounts deposited to a subaccount of the canister
DepositAmounts == {2060002}

-----------------------------------------------------------------------------
(* Ledger *)

Balance(sub) == IF sub \in DOMAIN balances THEN balances[sub] ELSE 0

\* the replies of ledger.transfer / ledger.icrc1_transfer to a transfer of amount
\* with the given fee out of a subaccount holding balance
TransferReplies(balance, amount, fee) ==
    (IF balance >= amount + fee THEN {"Ok"} ELSE {"InsufficientFunds"})
    \cup {"TemporarilyUnavailable"}

\* the replies of cmc.notify_mint_cycles / cmc.notify_top_up
NotifyReplies == {"Ok", "Processing"}

\* mutant: an error reply is taken for success
IsOk_Always(reply) == TRUE

\* switch (result) { case (#Ok(_)) ...; case (#Err(err)) ... }
IsOk(reply) == reply = "Ok"

-----------------------------------------------------------------------------
(* Call records *)

Idle == [pc |-> "idle"]

\* the locals of an update call that derives a subaccount (saltBlob is what
\* getSalt returned to it), and (log, interfered) its history: the external calls
\* it made with their replies, and whether another call debited its source
\* subaccount after it read the balance
NewCall(op, caller, paywallId, config) ==
    [op |-> op, caller |-> caller, paywallId |-> paywallId, pc |-> "getSalt",
     config |-> config, saltBlob |-> <<>>, sub |-> <<>>, balance |-> 0, fee_e8s |-> 0,
     userAmount |-> 0, remaining |-> 0, index |-> 0, amount |-> 0,
     amounts |-> <<>>, log |-> <<>>, interfered |-> FALSE]

Completed(op, caller, paywallId, result, arg, call) ==
    [op |-> op, caller |-> caller, paywallId |-> paywallId, result |-> result,
     arg |-> arg, call |-> call]

NoArg == <<>>

PaymentOps == {"payFromBalance", "verifyPayment"}

\* the other update calls that derive a subaccount
AccountOps == {"getUserAccount", "getPaymentAccount", "withdrawFromWallet"}

LedgerCallees == {"ledger.transfer", "ledger.icrc1_transfer"}

LogEntry(callee, to, amount, reply) ==
    [callee |-> callee, to |-> to, amount |-> amount, reply |-> reply]

\* the memos of mintCycles ("MINT") and topUpCanister ("TPUP")
MintMemo == <<77, 73, 78, 84, 0, 0, 0, 0>>

TopUpMemo == <<84, 80, 85, 80, 0, 0, 0, 0>>

\* the icrc1_transfer of mintCycles / topUpCanister to the minting canister
CmcTransfer(cmcSubaccount, memo, amount, reply) ==
    [callee |-> "ledger.icrc1_transfer", to |-> <<"cmc", cmcSubaccount>>,
     amount |-> amount, reply |-> reply, memo |-> memo]

\* the ledger transfers a call issued, and the e8s they took out of its subaccount
Transfers(c) == SelectSeq(c.log, LAMBDA e : e.callee \in LedgerCallees)

Notifies(c) == SelectSeq(c.log, LAMBDA e : e.callee \notin LedgerCallees)

Debited(c) ==
    LET ok == SelectSeq(Transfers(c), LAMBDA e : e.reply = "Ok")
    IN SumSeq([i \in 1..Len(ok) |-> ok[i].amount + ledgerFee])

-----------------------------------------------------------------------------
(* Registry *)

\* mutant: the id counter is not advanced
createPaywall_NoIncrement(caller, config) ==
    /\ LET id == nextPaywallId
           check == validateDestinations(config.destinations)
           currentIds == IF caller \in DOMAIN ownedPaywalls THEN ownedPaywalls[caller] ELSE <<>>
       IN IF check = "ok"
          THEN /\ Len(currentIds) < env.paywallLimit
               /\ paywallConfigs' = Put(paywallConfigs, id, config)
               /\ ownedPaywalls' = Put(ownedPaywalls, caller, currentIds \o <<id>>)
               /\ last' = Completed("createPaywall", caller, id, "Ok", config, Idle)
          ELSE /\ UNCHANGED <<paywallConfigs, ownedPaywalls>>
               /\ last' = Completed("createPaywall", caller, id, "trap", config, Idle)
    /\ UNCHANGED <<paidStatuses, paywallConfigEntries, paidStatusEntries, nextPaywallId,
                   ownedPaywallsEntries, salt, now, balances, calls, grants, env>>

\* createPaywall: the trap of validateDestinations rolls the message back,
\* the increment of nextPaywallId included
createPaywall(caller, config) ==
    /\ validateDestinations(config.destinations) = "ok" => nextPaywallId < env.paywallLimit
    /\ LET id == nextPaywallId
           check == validateDestinations(config.destinations)
           currentIds == IF caller \in DOMAIN ownedPaywalls THEN ownedPaywalls[caller] ELSE <<>>
       IN IF check = "ok"
          THEN /\ nextPaywallId' = nextPaywallId + 1
               /\ paywallConfigs' = Put(paywallConfigs, id, config)
               /\ ownedPaywalls' = Put(ownedPaywalls, caller, currentIds \o <<id>>)
               /\ last' = Completed("createPaywall", caller, id, "Ok", config, Idle)
          ELSE /\ UNCHANGED <<nextPaywallId, paywallConfigs, ownedPaywalls>>
               /\ last' = Completed("createPaywall", caller, id, "trap", config, Idle)
    /\ UNCHANGED <<paidStatuses, paywallConfigEntries, paidStatusEntries,
                   ownedPaywallsEntries, salt, now, balances, calls, grants, env>>

\* the config the paywall of the update runs is created with
UpdateBase == Config(1000001, 2, <<Dest("d1", 50, FALSE), Dest("c1", 50, TRUE)>>)

\* mutant: the update is merged into the config as created, not as stored
MergeConfig_Stale(config, updates, newDestinations) ==
    [price_e8s |-> IF updates.price_e8s = <<>> THEN UpdateBase.price_e8s
                   ELSE updates.price_e8s[1],
     target_canister |-> IF updates.target_canister = <<>> THEN UpdateBase.target_canister
                         ELSE updates.target_canister[1],
     session_duration_ns |-> IF updates.session_duration_ns = <<>>
                             THEN UpdateBase.session_duration_ns
                             ELSE updates.session_duration_ns[1],
     destinations |-> IF updates.destinations = <<>> THEN UpdateBase.destinations
                      ELSE newDestinations]

\* mutant: a provided field is stored only together with new destinations
MergeConfig_DestinationsOnly(config, updates, newDestinations) ==
    [config EXCEPT !.destinations = newDestinations]

\* the merge of updatePaywall: a provided field replaces the stored one
MergeConfig(config, updates, newDestinations) ==
    [price_e8s |-> IF updates.price_e8s = <<>> THEN config.price_e8s
                   ELSE updates.price_e8s[1],
     target_canister |-> IF updates.target_canister = <<>> THEN config.target_canister
                         ELSE updates.target_canister[1],
     session_duration_ns |-> IF updates.session_duration_ns = <<>> THEN config.session_duration_ns
                             ELSE updates.session_duration_ns[1],
     destinations |-> newDestinations]

\* mutant: any identity that owns a paywall passes for the owner
IsOwner_AnyOwner(caller, id) == caller \in DOMAIN ownedPaywalls

\* Array.find(ownerIds, value == id) != null
IsOwner(caller, id) ==
    /\ caller \in DOMAIN ownedPaywalls
    /\ \E i \in 1..Len(ownedPaywalls[caller]) : ownedPaywalls[caller][i] = id

updatePaywall(caller, id, updates) ==
    /\ env.updates < env.updateLimit
    /\ env' = [env EXCEPT !.updates = @ + 1]
    /\ IF id \notin DOMAIN paywallConfigs \/ ~IsOwner(caller, id)
       THEN /\ UNCHANGED paywallConfigs
            /\ last' = Completed("updatePaywall", caller, id, "return", updates, Idle)
       ELSE LET config == paywallConfigs[id]
                check == IF updates.destinations = <<>> THEN "ok"
                         ELSE validateDestinations(updates.destinations[1])
                newDestinations == IF updates.destinations = <<>> THEN config.destinations
                                   ELSE updates.destinations[1]
            IN IF check = "ok"
               THEN /\ paywallConfigs' = Put(paywallConfigs, id,
                                             MergeConfig(config, updates, newDestinations))
                    /\ last' = Completed("updatePaywall", caller, id, "Ok", updates, Idle)
               ELSE /\ UNCHANGED paywallConfigs
                    /\ last' = Completed("updatePaywall", caller, id, "trap", updates, Idle)
    /\ UNCHANGED <<paidStatuses, ownedPaywalls, paywallConfigEntries, paidStatusEntries,
                   ownedPaywallsEntries, nextPaywallId, salt, now, balances, calls,
                   grants>>

-----------------------------------------------------------------------------
(* Upgrade *)

\* mutant: the ownership index is not saved
preupgradeOwned_Empty == <<>>

\* preupgrade: the three maps as arrays of entries
preupgradeConfigs == Entries(paywallConfigs)

preupgradePaid ==
    LET es == Entries(paidStatuses)
    IN [i \in 1..Len(es) |-> <<es[i][1], Entries(es[i][2])>>]

preupgradeOwned == Entries(ownedPaywalls)

\* postupgrade: the three maps rebuilt from the stable arrays
postupgradePaid(entries) ==
    FromEntries([i \in 1..Len(entries) |->
                    <<entries[i][1], FromEntries(entries[i][2], EmptyMap)>>], EmptyMap)

Upgrade ==
    /\ env.upgrades < MaxUpgrades
    /\ paywallConfigEntries' = preupgradeConfigs
    /\ paidStatusEntries' = preupgradePaid
    /\ ownedPaywallsEntries' = preupgradeOwned
    /\ paywallConfigs' = FromEntries(paywallConfigEntries', EmptyMap)
    /\ paidStatuses' = postupgradePaid(paidStatusEntries')
    /\ ownedPaywalls' = FromEntries(ownedPaywallsEntries', EmptyMap)
    /\ env' = [env EXCEPT !.upgrades = @ + 1]
    /\ last' = Completed("upgrade", "controller", 0, "Ok", NoArg, Idle)
    /\ UNCHANGED <<nextPaywallId, salt, now, balances, calls, grants>>

-----------------------------------------------------------------------------
(* Environment: time and deposits *)

Tick ==
    /\ now < MaxTime
    /\ now' = now + 1
    /\ UNCHANGED <<canister, balances, calls, last, grants, env>>

\* somebody credits a subaccount the canister derived
Deposit(sub, amount) ==
    /\ env.deposits < MaxDeposits
    /\ balances' = Put(balances, sub, Balance(sub) + amount)
    /\ env' = [env EXCEPT !.deposits = @ + 1]
    /\ UNCHANGED <<canister, now, calls, last, grants>>

-----------------------------------------------------------------------------
(* Payment orchestration: payFromBalance and verifyPayment *)

\* the subaccount a call derives: the caller's wallet for payFromBalance,
\* getUserAccount and withdrawFromWallet, the caller's deposit slot of the paywall
\* for verifyPayment and getPaymentAccount
SourceSubaccount(c, saltBlob) ==
    IF c.op \in {"payFromBalance", "getUserAccount", "withdrawFromWallet"}
    THEN deriveUserSubaccount(saltBlob, c.caller)
    ELSE deriveSubaccount(saltBlob, c.paywallId, c.caller)

\* where a call goes on once its subaccount is derived
AfterDerive(op) ==
    IF op \in PaymentOps THEN "balance"
    ELSE IF op = "withdrawFromWallet" THEN "withdraw"
    ELSE "account"

\* the call has its subaccount, derived under the salt getSalt returned
Derived(c, saltBlob) ==
    [c EXCEPT !.pc = AfterDerive(c.op), !.saltBlob = saltBlob,
              !.sub = SourceSubaccount(c, saltBlob)]

\* mutant: the share is rounded up
ShareOf_RoundUp(userAmount, percentage) ==
    MulDiv100(userAmount, percentage)
       + (IF ((userAmount % 100) * percentage) % 100 = 0 THEN 0 ELSE 1)

\* var amount = (userAmount * destination.percentage) / 100
ShareOf(userAmount, percentage) == MulDiv100(userAmount, percentage)

\* mutant: the last destination gets its own percentage only
LastTakesRest_OwnShare(amount, remaining) == amount

\* if (index == lastIndex) { amount += remaining - amount }
LastTakesRest(amount, remaining) == amount + (remaining - amount)

\* mutant: a destination whose amount is 0 is sent a transfer like any other
SplitLoop_PayZero(c) ==
    LET dests == c.config.destinations
        lastIndex == Len(dests) - 1
    IN IF c.index >= Len(dests) THEN [c EXCEPT !.pc = "finish"]
       ELSE LET share == ShareOf(c.userAmount, dests[c.index + 1].percentage)
                amount == IF c.index = lastIndex THEN LastTakesRest(share, c.remaining)
                          ELSE share
            IN IF c.remaining < share THEN [c EXCEPT !.pc = "trap"]
               ELSE [c EXCEPT !.amount = amount,
                              !.remaining = c.remaining - amount,
                              !.amounts = Append(c.amounts, amount),
                              !.pc = "pay"]

RECURSIVE SplitLoop(_)
\* the for loop over config.destinations from c.index on, up to its next await
\* (pc "pay"), its end (pc "finish") or a trap of a Nat subtraction (pc "trap")
SplitLoop(c) ==
    LET dests == c.config.destinations
        lastIndex == Len(dests) - 1
    IN IF c.index >= Len(dests) THEN [c EXCEPT !.pc = "finish"]
       ELSE LET share == ShareOf(c.userAmount, dests[c.index + 1].percentage)
                underflow == c.remaining < share   \* remaining - amount on a Nat
                amount == IF c.index = lastIndex THEN LastTakesRest(share, c.remaining)
                          ELSE share
                next == [c EXCEPT !.amount = amount,
                                  !.remaining = c.remaining - amount,
                                  !.amounts = Append(c.amounts, amount)]
            IN IF underflow THEN [c EXCEPT !.pc = "trap"]
               ELSE IF amount > 0 THEN [next EXCEPT !.pc = "pay"]
               ELSE SplitLoop([next EXCEPT !.index = c.index + 1])

\* the other calls that read their balance from sub learn that it was debited
MarkDebit(k, sub) ==
    [j \in DOMAIN calls |->
        IF j # k /\ calls[j].pc \in {"fee", "pay", "notify"} /\ calls[j].sub = sub
        THEN [calls[j] EXCEPT !.interfered = TRUE]
        ELSE calls[j]]

\* mutant: the session duration is left out of the expiry
NewExpiry_NoDuration(time, config) == time

\* the expiry a successful payment writes
NewExpiry(time, config) == time + config.session_duration_ns

\* the call returns result: its slot is free again
Return(k, cs, c, result) ==
    /\ calls' = [cs EXCEPT ![k] = Idle]
    /\ last' = Completed(c.op, c.caller, c.paywallId, result, NoArg, c)

\* mutant: a payment made while access is active extends the running session
GrantAccess_Extend(c) ==
    LET userMap == IF c.caller \in DOMAIN paidStatuses THEN paidStatuses[c.caller]
                   ELSE EmptyMap
        from == IF c.paywallId \in DOMAIN userMap THEN Max(userMap[c.paywallId], now) ELSE now
        expiry == NewExpiry(from, c.config)
        key == <<c.caller, c.paywallId>>
        best == IF key \in DOMAIN grants THEN Max(grants[key].best, expiry) ELSE expiry
    IN /\ paidStatuses' = Put(paidStatuses, c.caller, Put(userMap, c.paywallId, expiry))
       /\ grants' = Put(grants, key,
                        [t |-> now, d |-> c.config.session_duration_ns, best |-> best])

\* mutant: the record is written into a map created anew for the caller
GrantAccess_FreshMap(c) ==
    LET expiry == NewExpiry(now, c.config)
        key == <<c.caller, c.paywallId>>
        best == IF key \in DOMAIN grants THEN Max(grants[key].best, expiry) ELSE expiry
    IN /\ paidStatuses' = Put(paidStatuses, c.caller, Put(EmptyMap, c.paywallId, expiry))
       /\ grants' = Put(grants, key,
                        [t |-> now, d |-> c.config.session_duration_ns, best |-> best])

\* the last stage: userMap.put(paywallId, Time.now() + session_duration_ns)
GrantAccess(c) ==
    LET expiry == NewExpiry(now, c.config)
        userMap == IF c.caller \in DOMAIN paidStatuses THEN paidStatuses[c.caller]
                   ELSE EmptyMap
        key == <<c.caller, c.paywallId>>
        best == IF key \in DOMAIN grants THEN Max(grants[key].best, expiry) ELSE expiry
    IN /\ paidStatuses' = Put(paidStatuses, c.caller, Put(userMap, c.paywallId, expiry))
       /\ grants' = Put(grants, key,
                        [t |-> now, d |-> c.config.session_duration_ns, best |-> best])

\* mutant: the config is read again from the store after every external reply
Continue_Reread(k, cs, c) ==
    LET n == SplitLoop([c EXCEPT !.config = paywallConfigs[c.paywallId]])
    IN IF n.pc = "finish" THEN GrantAccess(n) /\ Return(k, cs, n, "Ok")
       ELSE IF n.pc = "trap"
       THEN Return(k, cs, n, "trap") /\ UNCHANGED <<paidStatuses, grants>>
       ELSE /\ calls' = [cs EXCEPT ![k] = n]
            /\ UNCHANGED <<paidStatuses, grants, last>>

\* what follows an external reply: the loop runs on to its next await or to the end
Continue(k, cs, c) ==
    LET n == SplitLoop(c)
    IN IF n.pc = "finish" THEN GrantAccess(n) /\ Return(k, cs, n, "Ok")
       ELSE IF n.pc = "trap"
       THEN Return(k, cs, n, "trap") /\ UNCHANGED <<paidStatuses, grants>>
       ELSE /\ calls' = [cs EXCEPT ![k] = n]
            /\ UNCHANGED <<paidStatuses, grants, last>>

Debit(sub, amount) == Put(balances, sub, Balance(sub) - (amount + ledgerFee))

\* mutant: the config is not looked up before the first await
PayBegin_NoLookup(k, op, caller, paywallId) ==
    /\ calls[k].pc = "idle"
    /\ env.payments < env.paymentLimit
    /\ env' = [env EXCEPT !.payments = @ + 1]
    /\ calls' = [calls EXCEPT ![k] =
                    NewCall(op, caller, paywallId,
                            IF paywallId \in DOMAIN paywallConfigs THEN paywallConfigs[paywallId]
                            ELSE Config(0, 0, <<Dest("d1", 100, FALSE)>>))]
    /\ UNCHANGED <<canister, now, balances, grants, last>>

\* entry of payFromBalance / verifyPayment
PayBegin(k, op, caller, paywallId) ==
    /\ calls[k].pc = "idle"
    /\ env.payments < env.paymentLimit
    /\ env' = [env EXCEPT !.payments = @ + 1]
    /\ IF paywallId \notin DOMAIN paywallConfigs
       THEN /\ last' = Completed(op, caller, paywallId, "Invalid paywall ID", NoArg, Idle)
            /\ UNCHANGED calls
       ELSE /\ calls' = [calls EXCEPT ![k] =
                            NewCall(op, caller, paywallId, paywallConfigs[paywallId])]
            /\ UNCHANGED last
    /\ UNCHANGED <<canister, now, balances, grants>>

\* getSalt up to its await: the salt is there, or Random.blob is asked for one
GetSalt(k) ==
    /\ calls[k].pc = "getSalt"
    /\ LET c == calls[k]
       IN calls' = [calls EXCEPT ![k] =
                    IF Len(salt) = 0 THEN [c EXCEPT !.pc = "random"]
                    ELSE Derived(c, salt)]
    /\ UNCHANGED <<canister, now, balances, last, grants, env>>

\* getSalt after its await: salt := Blob.toArray(random)
SetSalt(k, random) ==
    /\ calls[k].pc = "random"
    /\ salt' = random
    /\ calls' = [calls EXCEPT ![k] = Derived(calls[k], random)]
    /\ UNCHANGED <<paywallConfigs, paidStatuses, ownedPaywalls, paywallConfigEntries,
                   paidStatusEntries, ownedPaywallsEntries, nextPaywallId, now, balances,
                   last, grants, env>>

\* mutant: verifyPayment asks for the price only, without the ledger fees
InsufficientBalance_VerifyPriceOnly(op, config, balance) ==
    IF op = "verifyPayment" THEN balance < config.price_e8s
    ELSE balance < requiredBalance(config)

\* if (balance < requiredBalance): the same test in payFromBalance and in
\* verifyPayment
InsufficientBalance(op, config, balance) == balance < requiredBalance(config)

\* mutant: a call that finds another one settling from the same subaccount
\* is turned away
ReadBalance_Serialized(k) ==
    /\ calls[k].pc = "balance"
    /\ LET c == [calls[k] EXCEPT !.balance = Balance(calls[k].sub),
                                 !.fee_e8s = calculateFee(calls[k].config.price_e8s)]
           busy == \E j \in DOMAIN calls :
                      j # k /\ calls[j].pc \in {"fee", "pay", "notify"} /\ calls[j].sub = c.sub
       IN IF c.config.price_e8s < c.fee_e8s
          THEN Return(k, calls, c, "Paywall price is too low to cover the fee.")
          ELSE IF InsufficientBalance(c.op, c.config, c.balance) \/ busy
          THEN Return(k, calls, c, "Insufficient balance")
          ELSE /\ calls' = [calls EXCEPT ![k] = [c EXCEPT !.pc = "fee"]]
               /\ UNCHANGED last
    /\ UNCHANGED <<canister, now, balances, grants, env>>

\* icrc1_balance_of answered, then the fee and the two checks
ReadBalance(k) ==
    /\ calls[k].pc = "balance"
    /\ LET c == [calls[k] EXCEPT !.balance = Balance(calls[k].sub),
                                 !.fee_e8s = calculateFee(calls[k].config.price_e8s)]
       IN IF c.config.price_e8s < c.fee_e8s
          THEN Return(k, calls, c, "Paywall price is too low to cover the fee.")
          ELSE IF InsufficientBalance(c.op, c.config, c.balance)
          THEN Return(k, calls, c, "Insufficient balance")
          ELSE /\ calls' = [calls EXCEPT ![k] = [c EXCEPT !.pc = "fee"]]
               /\ UNCHANGED last
    /\ UNCHANGED <<canister, now, balances, grants, env>>

\* mutant: the fee of a payment that failed after its fee leg is remembered,
\* and its repetition does not pay it again
SendFee_Remembered(k, reply) ==
    /\ calls[k].pc = "fee"
    /\ reply \in TransferReplies(Balance(calls[k].sub), calls[k].fee_e8s, ledgerFee)
    /\ LET c0 == calls[k]
           paid == /\ last.op = c0.op /\ last.caller = c0.caller
                   /\ last.paywallId = c0.paywallId
                   /\ last.call # Idle /\ last.result # "Ok"
                   /\ Len(last.call.log) >= 1 /\ last.call.log[1].reply = "Ok"
           c == [c0 EXCEPT !.log = Append(@,
                    LogEntry("ledger.transfer", "feeAccount", c0.fee_e8s, reply))]
           loop(x) == [x EXCEPT !.userAmount = x.config.price_e8s - x.fee_e8s,
                                !.remaining = x.config.price_e8s - x.fee_e8s,
                                !.index = 0]
       IN IF paid
          THEN /\ reply = "Ok"
               /\ UNCHANGED balances
               /\ Continue(k, calls, loop(c0))
          ELSE IF IsOk(reply)
          THEN /\ balances' = Debit(c.sub, c.fee_e8s)
               /\ Continue(k, MarkDebit(k, c.sub), loop(c))
          ELSE /\ Return(k, calls, c, "Fee transfer failed")
               /\ UNCHANGED <<balances, paidStatuses, grants>>
    /\ UNCHANGED <<paywallConfigs, ownedPaywalls, paywallConfigEntries, paidStatusEntries,
                   ownedPaywallsEntries, nextPaywallId, salt, now, env>>

\* sendFee: ledger.transfer of fee_e8s to the fee account
SendFee(k, reply) ==
    /\ calls[k].pc = "fee"
    /\ reply \in TransferReplies(Balance(calls[k].sub), calls[k].fee_e8s, ledgerFee)
    /\ LET c == [calls[k] EXCEPT !.log = Append(@,
                    LogEntry("ledger.transfer", "feeAccount", calls[k].fee_e8s, reply))]
       IN IF IsOk(reply)
          THEN /\ balances' = Debit(c.sub, c.fee_e8s)
               /\ Continue(k, MarkDebit(k, c.sub),
                           [c EXCEPT !.userAmount = c.config.price_e8s - c.fee_e8s,
                                     !.remaining = c.config.price_e8s - c.fee_e8s,
                                     !.index = 0])
          ELSE /\ Return(k, calls, c, "Fee transfer failed")
               /\ UNCHANGED <<balances, paidStatuses, grants>>
    /\ UNCHANGED <<paywallConfigs, ownedPaywalls, paywallConfigEntries, paidStatusEntries,
                   ownedPaywallsEntries, nextPaywallId, salt, now, env>>

\* sendPayment without conversion: one icrc1_transfer to the destination
PayDirect(k, reply) ==
    /\ calls[k].pc = "pay"
    /\ LET c0 == calls[k]
           d == c0.config.destinations[c0.index + 1]
           c == [c0 EXCEPT !.log = Append(@,
                    LogEntry("ledger.icrc1_transfer", <<d.destination>>, c0.amount, reply))]
       IN /\ ~d.convertToCycles
          /\ reply \in TransferReplies(Balance(c0.sub), c0.amount, ledgerFee)
          /\ IF IsOk(reply)
             THEN /\ balances' = Debit(c.sub, c.amount)
                  /\ Continue(k, MarkDebit(k, c.sub), [c EXCEPT !.index = c.index + 1])
             ELSE /\ Return(k, calls, c, "Direct transfer failed")
                  /\ UNCHANGED <<balances, paidStatuses, grants>>
    /\ UNCHANGED <<paywallConfigs, ownedPaywalls, paywallConfigEntries, paidStatusEntries,
                   ownedPaywallsEntries, nextPaywallId, salt, now, env>>

\* sendPayment with conversion, first leg: topUpCanister / mintCycles up to the
\* reply to its icrc1_transfer to the minting canister
PayConvert(k, reply) ==
    /\ calls[k].pc = "pay"
    /\ LET c0 == calls[k]
           d == c0.config.destinations[c0.index + 1]
           topUp == isCanister(d.destination)
           cmcSubaccount == IF topUp THEN buildTopUpSubaccount(d.destination)
                            ELSE buildMintSubaccount(d.destination)
           c == [c0 EXCEPT !.log = Append(@,
                    CmcTransfer(cmcSubaccount, IF topUp THEN TopUpMemo ELSE MintMemo,
                                c0.amount, reply))]
       IN /\ d.convertToCycles
          /\ IF cmcSubaccount = <<>>
             THEN /\ reply = "none"
                  /\ Return(k, calls, c0, IF topUp THEN "Invalid top-up subaccount"
                                          ELSE "Invalid mint subaccount")
                  /\ UNCHANGED <<balances, paidStatuses, grants>>
             ELSE /\ reply \in TransferReplies(Balance(c0.sub), c0.amount, ledgerFee)
                  /\ IF IsOk(reply)
                     THEN /\ balances' = Debit(c.sub, c.amount)
                          /\ calls' = [MarkDebit(k, c.sub) EXCEPT ![k] = [c EXCEPT !.pc = "notify"]]
                          /\ UNCHANGED <<paidStatuses, grants, last>>
                     ELSE /\ Return(k, calls, c, IF topUp THEN "CMC top-up transfer failed"
                                                 ELSE "CMC mint transfer failed")
                          /\ UNCHANGED <<balances, paidStatuses, grants>>
    /\ UNCHANGED <<paywallConfigs, ownedPaywalls, paywallConfigEntries, paidStatusEntries,
                   ownedPaywallsEntries, nextPaywallId, salt, now, env>>

\* sendPayment with conversion, second leg: the reply to notify_top_up / notify_mint_cycles
Notify(k, reply) ==
    /\ calls[k].pc = "notify"
    /\ reply \in NotifyReplies
    /\ LET c0 == calls[k]
           d == c0.config.destinations[c0.index + 1]
           topUp == isCanister(d.destination)
           c == [c0 EXCEPT !.log = Append(@,
                    LogEntry(IF topUp THEN "cmc.notify_top_up" ELSE "cmc.notify_mint_cycles",
                             <<d.destination>>, 0, reply))]
       IN IF IsOk(reply)
          THEN Continue(k, calls, [c EXCEPT !.index = c.index + 1])
          ELSE /\ Return(k, calls, c, IF topUp THEN "CMC top-up notify failed"
                                      ELSE "CMC mint notify failed")
               /\ UNCHANGED <<paidStatuses, grants>>
    /\ UNCHANGED <<paywallConfigs, ownedPaywalls, paywallConfigEntries, paidStatusEntries,
                   ownedPaywallsEntries, nextPaywallId, salt, now, balances, env>>

-----------------------------------------------------------------------------
(* The canister among its callers *)

NoCall == Completed("none", "nobody", 0, "none", NoArg, Idle)

Init ==
    /\ paywallConfigs = EmptyMap
    /\ paidStatuses = EmptyMap
    /\ ownedPaywalls = EmptyMap
    /\ paywallConfigEntries = <<>>
    /\ paidStatusEntries = <<>>
    /\ ownedPaywallsEntries = <<>>
    /\ nextPaywallId = 0
    /\ salt = <<>>
    /\ now = 0
    /\ balances = EmptyMap
    /\ calls = [k \in CallIds |-> Idle]
    /\ last = NoCall
    /\ grants = EmptyMap
    /\ env = [deposits |-> 0, upgrades |-> 0, updates |-> 0, payments |-> 0,
              paywallLimit |-> MaxPaywalls, updateLimit |-> MaxUpdates,
              paymentLimit |-> MaxPayments]

\* deriveUserSubaccount and deriveSubaccount tabulated over the salts, ids and
\* identities of the model
WalletTable == [r \in RandomBlobs |-> [u \in Users |-> deriveUserSubaccount(r, u)]]

DepositTable ==
    [r \in RandomBlobs |-> [id \in PaywallIds |-> [u \in Users |-> deriveSubaccount(r, id, u)]]]

\* the subaccounts of the canister that can be funded: the ones it derives
\* under its salt
FundedSubaccounts ==
    IF Len(salt) = 0 THEN {}
    ELSE { WalletTable[salt][u] : u \in Payers }
         \cup { DepositTable[salt][id][u] : id \in DOMAIN paywallConfigs, u \in Payers }

Next ==
    \/ \E u \in Creators, c \in CreateConfigs : createPaywall(u, c)
    \/ \E u \in Users, id \in PaywallIds, up \in Updates : updatePaywall(u, id, up)
    \/ Upgrade
    \/ Tick
    \/ \E sub \in FundedSubaccounts, a \in DepositAmounts : Deposit(sub, a)
    \/ \E k \in DOMAIN calls, op \in PaymentOps, u \in Payers, id \in PaywallIds :
          PayBegin(k, op, u, id)
    \/ \E k \in DOMAIN calls : GetSalt(k)
    \/ \E k \in DOMAIN calls, r \in RandomBlobs : SetSalt(k, r)
    \/ \E k \in DOMAIN calls : ReadBalance(k)
    \/ \E k \in DOMAIN calls, r \in {"Ok", "InsufficientFunds", "TemporarilyUnavailable"} :
          SendFee(k, r)
    \/ \E k \in DOMAIN calls, r \in {"Ok", "InsufficientFunds", "TemporarilyUnavailable"} :
          PayDirect(k, r)
    \/ \E k \in DOMAIN calls, r \in {"Ok", "InsufficientFunds", "TemporarilyUnavailable", "none"} :
          PayConvert(k, r)
    \/ \E k \in DOMAIN calls, r \in NotifyReplies : Notify(k, r)

Spec == Init /\ [][Next]_vars

-----------------------------------------------------------------------------
(* Payments against one stored config: the arithmetic of fee, required     *)
(* balance and split over many prices and destination lists, with two      *)
(* payment calls in flight.  The initial states are states of the canister *)
(* after one createPaywall by u1 and one generation of the salt.           *)

PayCalls == 2      \* payment calls in flight at once

PayPrices == {9999, 10000, 10001, 1000001, 9999999, 10000000, 100000000, 123456789}

PayDestinationLists ==
    { <<Dest("d1", 100, FALSE)>>,
      <<Dest("c1", 100, TRUE)>>,
      <<Dest("d1", 50, FALSE), Dest("d1", 50, TRUE)>>,
      <<Dest("d1", 0, FALSE), Dest("c1", 100, FALSE)>>,
      <<Dest("d1", 100, TRUE), Dest("c1", 0, TRUE)>>,
      <<Dest("d1", 33, FALSE), Dest("c1", 33, TRUE), Dest("d1", 34, FALSE)>>,
      <<Dest("d1", 1, FALSE), Dest("d1", 1, FALSE), Dest("d1", 98, FALSE)>>,
      <<Dest("d1", 67, FALSE), Dest("d1", 33, FALSE), Dest("d1", 0, FALSE)>> }

PayConfigs == { Config(p, 1, d) : p \in PayPrices, d \in PayDestinationLists }

PaySalt == CHOOSE r \in RandomBlobs : TRUE

\* what the payer's two source subaccounts hold: one e8s short of the required
\* balance, exactly the required balance, or enough for two payments
PayBalances(config) ==
    { requiredBalance(config) - 1, requiredBalance(config), 2 * requiredBalance(config) }

InitPay ==
    /\ \E config \in PayConfigs :
          /\ paywallConfigs = Put(EmptyMap, 0, config)
          /\ \E b \in PayBalances(config) :
                balances = Put(Put(EmptyMap, WalletTable[PaySalt]["u2"], b),
                               DepositTable[PaySalt][0]["u2"], b)
    /\ paidStatuses = EmptyMap
    /\ ownedPaywalls = Put(EmptyMap, "u1", <<0>>)
    /\ paywallConfigEntries = <<>>
    /\ paidStatusEntries = <<>>
    /\ ownedPaywallsEntries = <<>>
    /\ nextPaywallId = 1
    /\ salt = PaySalt
    /\ now = 0
    /\ calls = [k \in 1..PayCalls |-> Idle]
    /\ last = NoCall
    /\ grants = EmptyMap
    /\ env = [deposits |-> 0, upgrades |-> 0, updates |-> 0, payments |-> 0,
              paywallLimit |-> MaxPaywalls, updateLimit |-> MaxUpdates,
              paymentLimit |-> MaxPayments]

NextPay ==
    \/ \E k \in DOMAIN calls, op \in PaymentOps, u \in Payers, id \in {0, 1} :
          PayBegin(k, op, u, id)
    \/ \E k \in DOMAIN calls : GetSalt(k)
    \/ \E k \in DOMAIN calls : ReadBalance(k)
    \/ \E k \in DOMAIN calls, r \in {"Ok", "InsufficientFunds", "TemporarilyUnavailable"} :
          SendFee(k, r)
    \/ \E k \in DOMAIN calls, r \in {"Ok", "InsufficientFunds", "TemporarilyUnavailable"} :
          PayDirect(k, r)
    \/ \E k \in DOMAIN calls, r \in {"Ok", "InsufficientFunds", "TemporarilyUnavailable", "none"} :
          PayConvert(k, r)
    \/ \E k \in DOMAIN calls, r \in NotifyReplies : Notify(k, r)

SpecPay == InitPay /\ [][NextPay]_vars

-----------------------------------------------------------------------------
(* The registry with three stored paywalls of two owners: updatePaywall by  *)
(* owners, by owners of other paywalls and by strangers, over every         *)
(* combination of provided fields.  The initial states are states of the    *)
(* canister after createPaywall by u1, u2 and u1 again and three payments.  *)

RegistryPaywalls == 3    \* paywalls in the store

\* who owns paywall id: u1 the even ones, u2 the odd ones
RegistryOwner(id) == IF id % 2 = 0 THEN "u1" ELSE "u2"

RegistryConfigs ==
    { Config(p, 2, d) : p \in {1000001, 5000000},
                        d \in { <<Dest("d1", 100, FALSE)>>,
                                <<Dest("d1", 50, FALSE), Dest("c1", 50, TRUE)>> } }

\* callers of updatePaywall: the two owners and an identity that owns nothing
RegistryCallers == Users \cup {"d1"}

\* every combination of provided and absent fields, the destinations valid or not
RegistryUpdates ==
    { Update(p, t, d, l) :
        p \in {<<>>, <<3000000>>}, t \in {<<>>, <<"d1">>}, d \in {<<>>, <<1>>},
        l \in { <<>>,
                << <<Dest("c1", 100, TRUE)>> >>,
                << <<Dest("d1", 60, FALSE), Dest("c1", 41, FALSE)>> >>,
                << <<>> >> } }

\* the access records after payments by u2 for paywalls 0 and 1 and by u1 for 1
RegistryPaid ==
    Put(Put(EmptyMap, "u2", Put(Put(EmptyMap, 0, 2), 1, 2)), "u1", Put(EmptyMap, 1, 2))

\* the ids createPaywall handed out to owner, in the order it did
OwnedIds(owner) ==
    SelectSeq([i \in 1..RegistryPaywalls |-> i - 1], LAMBDA id : RegistryOwner(id) = owner)

InitRegistry ==
    /\ paywallConfigs \in [0..(RegistryPaywalls - 1) -> RegistryConfigs]
    /\ ownedPaywalls = [u \in {RegistryOwner(id) : id \in 0..(RegistryPaywalls - 1)} |-> OwnedIds(u)]
    /\ paidStatuses = RegistryPaid
    /\ grants = [key \in {<<"u2", 0>>, <<"u2", 1>>, <<"u1", 1>>} |->
                    [t |-> 0, d |-> 2, best |-> 2]]
    /\ paywallConfigEntries = <<>>
    /\ paidStatusEntries = <<>>
    /\ ownedPaywallsEntries = <<>>
    /\ nextPaywallId = RegistryPaywalls
    /\ salt = PaySalt
    /\ now = 0
    /\ balances = Put(EmptyMap, WalletTable[PaySalt]["u2"], 0)
    /\ calls = [k \in CallIds |-> Idle]
    /\ last = NoCall
    /\ env = [deposits |-> 0, upgrades |-> 0, updates |-> 0, payments |-> 0,
              paywallLimit |-> MaxPaywalls, updateLimit |-> MaxUpdates,
              paymentLimit |-> MaxPayments]

NextRegistry ==
    \/ \E u \in RegistryCallers, id \in 0..RegistryPaywalls, up \in RegistryUpdates :
          updatePaywall(u, id, up)
    \/ Upgrade

SpecRegistry == InitRegistry /\ [][NextRegistry]_vars

-----------------------------------------------------------------------------
(* Accounts and the salt: getUserAccount, getPaymentAccount and             *)
(* withdrawFromWallet beside the payments, with calls in flight together    *)
(* while the salt is still empty.  The initial state is the canister after  *)
(* StoredPaywalls calls of createPaywall by u1 and before any call that     *)
(* needs the salt.                                                          *)

AccountCalls == 2        \* calls in flight at once
StoredPaywalls == 101    \* paywalls in the store: ids "pw-0" .. "pw-100"

\* callers with a 29-byte, a 10-byte and the 1-byte anonymous principal
AccountCallers == {"u2", "c1", "anon"}

\* ids callers pass: of 4, 5 and 6 characters, and one that is not in the store
AccountIds == {0, 10, StoredPaywalls - 1, StoredPaywalls}

\* a price no deposit of the model covers
AccountConfig == Config(100000000, 2, <<Dest("d1", 100, FALSE)>>)

WithdrawAmounts == {1000000}

\* entry of getUserAccount / getPaymentAccount / withdrawFromWallet
AccountBegin(k, op, caller, paywallId, amount) ==
    /\ calls[k].pc = "idle"
    /\ env.payments < env.paymentLimit
    /\ env' = [env EXCEPT !.payments = @ + 1]
    /\ IF op = "getPaymentAccount" /\ paywallId \notin DOMAIN paywallConfigs
       THEN /\ last' = Completed(op, caller, paywallId, "null", NoArg, Idle)
            /\ UNCHANGED calls
       ELSE /\ calls' = [calls EXCEPT ![k] =
                            [NewCall(op, caller, paywallId, NoArg) EXCEPT !.amount = amount]]
            /\ UNCHANGED last
    /\ UNCHANGED <<canister, now, balances, grants>>

\* getUserAccount / getPaymentAccount reply with the account of the subaccount
ReturnAccount(k) ==
    /\ calls[k].pc = "account"
    /\ Return(k, calls, calls[k], "account")
    /\ UNCHANGED <<canister, now, balances, grants, env>>

\* withdrawFromWallet: the reply of its icrc1_transfer is the result of the call
Withdraw(k, reply) ==
    /\ calls[k].pc = "withdraw"
    /\ reply \in TransferReplies(Balance(calls[k].sub), calls[k].amount, ledgerFee)
    /\ LET c == [calls[k] EXCEPT !.log = Append(@,
                    LogEntry("ledger.icrc1_transfer", <<"to">>, calls[k].amount, reply))]
       IN /\ balances' = IF IsOk(reply) THEN Debit(c.sub, c.amount) ELSE balances
          /\ Return(k, IF IsOk(reply) THEN MarkDebit(k, c.sub) ELSE calls, c, reply)
    /\ UNCHANGED <<canister, now, grants, env>>

InitAccounts ==
    /\ paywallConfigs = [id \in 0..(StoredPaywalls - 1) |-> AccountConfig]
    /\ ownedPaywalls = Put(EmptyMap, "u1", [i \in 1..StoredPaywalls |-> i - 1])
    /\ paidStatuses = EmptyMap
    /\ paywallConfigEntries = <<>>
    /\ paidStatusEntries = <<>>
    /\ ownedPaywallsEntries = <<>>
    /\ nextPaywallId = StoredPaywalls
    /\ salt = <<>>
    /\ now = 0
    /\ balances = EmptyMap
    /\ calls = [k \in 1..AccountCalls |-> Idle]
    /\ last = NoCall
    /\ grants = EmptyMap
    /\ env = [deposits |-> 0, upgrades |-> 0, updates |-> 0, payments |-> 0,
              paywallLimit |-> MaxPaywalls, updateLimit |-> MaxUpdates,
              paymentLimit |-> MaxPayments]

NextAccounts ==
    \/ \E k \in DOMAIN calls, u \in AccountCallers :
          AccountBegin(k, "getUserAccount", u, 0, 0)
    \/ \E k \in DOMAIN calls, u \in AccountCallers, id \in AccountIds :
          AccountBegin(k, "getPaymentAccount", u, id, 0)
    \/ \E k \in DOMAIN calls, u \in AccountCallers, a \in WithdrawAmounts :
          AccountBegin(k, "withdrawFromWallet", u, 0, a)
    \/ \E k \in DOMAIN calls, op \in PaymentOps, u \in AccountCallers, id \in AccountIds :
          PayBegin(k, op, u, id)
    \/ \E k \in DOMAIN calls : GetSalt(k)
    \/ \E k \in DOMAIN calls, r \in RandomBlobs : SetSalt(k, r)
    \/ \E k \in DOMAIN calls : ReturnAccount(k)
    \/ \E k \in DOMAIN calls, r \in {"Ok", "InsufficientFunds", "TemporarilyUnavailable"} :
          Withdraw(k, r)
    \/ \E k \in DOMAIN calls : ReadBalance(k)
    \/ \E a \in DepositAmounts :
          Len(salt) # 0 /\ Deposit(WalletTable[salt]["u2"], a)

SpecAccounts == InitAccounts /\ [][NextAccounts]_vars

-----------------------------------------------------------------------------
(* Properties *)

\* the stored expiry of (user, paywallId) as an option
Record(user, paywallId) ==
    IF user \in DOMAIN paidStatuses /\ paywallId \in DOMAIN paidStatuses[user]
    THEN <<paidStatuses[user][paywallId]>> ELSE <<>>

\* the payment calls of the state: those in flight and the one that returned last
PaymentCalls ==
    { calls[k] : k \in { j \in DOMAIN calls :
                            calls[j].pc # "idle" /\ calls[j].op \in PaymentOps } }
    \cup (IF last.op \in PaymentOps /\ last.call # Idle THEN {last.call} ELSE {})

\* a payment call returned in the step
Returned(k) == calls[k].pc # "idle" /\ calls'[k] = Idle

\* the e8s the successful icrc1 transfers of a call moved to its destinations
Distributed(c) ==
    LET ok == SelectSeq(c.log, LAMBDA e : e.callee = "ledger.icrc1_transfer" /\ e.reply = "Ok")
    IN SumSeq([i \in 1..Len(ok) |-> ok[i].amount])

\* C1: when a payment runs its loop to the end, the amounts computed for the
\* destinations, and the amounts transferred to them, sum to exactly
\* net = price - fee; at every await of the loop the amounts computed so far
\* and the remainder add up to net.
C1_ZeroLossSplit ==
    /\ \A c \in PaymentCalls :
          c.pc \in {"pay", "notify"} =>
              SumSeq(c.amounts) + c.remaining = c.config.price_e8s - c.fee_e8s
    /\ (last.op \in PaymentOps /\ last.result = "Ok") =>
          LET c == last.call
          IN /\ Len(c.amounts) = Len(c.config.destinations)
             /\ SumSeq(c.amounts) = c.config.price_e8s - c.fee_e8s
             /\ Distributed(c) = c.config.price_e8s - c.fee_e8s

\* C1 witness: a payment over three destinations succeeded and the last one
\* received more than its own percentage of the net amount (the remainder).
C1_Witness ==
    /\ last.op \in PaymentOps /\ last.result = "Ok"
    /\ Len(last.call.config.destinations) = 3
    /\ last.call.amounts[3] >
          ((last.call.config.price_e8s - last.call.fee_e8s) \div 100)
             * last.call.config.destinations[3].percentage
          + (((last.call.config.price_e8s - last.call.fee_e8s) % 100)
             * last.call.config.destinations[3].percentage) \div 100


\* every external call of the attempt was answered Ok: the fee leg first, then
\* for each destination with a positive amount one transfer, followed by one
\* notify when it converts to cycles
AllLegsSucceeded(c) ==
    /\ Len(c.amounts) = Len(c.config.destinations)
    /\ \A i \in 1..Len(c.log) : c.log[i].reply = "Ok"
    /\ Len(c.log) >= 1 /\ c.log[1].callee = "ledger.transfer"
    /\ Len(c.log) = 1 + SumSeq([i \in 1..Len(c.amounts) |->
                                   IF c.amounts[i] = 0 THEN 0
                                   ELSE IF c.config.destinations[i].convertToCycles THEN 2
                                   ELSE 1])

\* C2: the access record of (u, p) is created or overwritten only in the step
\* in which a payFromBalance / verifyPayment call of u for p returns Ok after
\* its fee transfer and the settlement of every destination all succeeded; a
\* step in which a payment returns an error changes no record.
C2_RecordOnlyBySuccessfulPayment ==
    [][ /\ \A u \in Users, p \in PaywallIds :
              Record(u, p)' # Record(u, p) =>
                 \E k \in DOMAIN calls :
                    /\ Returned(k)
                    /\ calls[k].caller = u /\ calls[k].paywallId = p
                    /\ last'.op \in PaymentOps /\ last'.result = "Ok"
                    /\ last'.caller = u /\ last'.paywallId = p
                    /\ AllLegsSucceeded(last'.call)
        /\ (\E k \in DOMAIN calls : Returned(k) /\ last'.result # "Ok") =>
              paidStatuses' = paidStatuses
        /\ DOMAIN paidStatuses' \subseteq Users
      ]_vars

\* C2 witness: a record exists, and the payment that returned last had its fee
\* transferred and then failed at a destination.
C2_Witness ==
    /\ \E u \in Users, p \in PaywallIds : Record(u, p) # <<>>
    /\ last.op \in PaymentOps /\ last.result # "Ok" /\ last.call # Idle
    /\ Len(last.call.log) >= 2

\* C3 as claimed: every successful payment at t with duration d keeps hasAccess
\* true on all of [t, t + d) whatever happens in between (best is the largest
\* t + d over the successful payments of the pair), and it is false afterwards.
C3_Original ==
    \A key \in DOMAIN grants :
        hasAccess(key[1], key[2]) <=> (now < grants[key].best)

\* C3: with (t, d) the time and session duration of the latest successful
\* payment of u for p, hasAccess(u, p) is true at every time in [t, t + d) and
\* false from t + d on, whatever updatePaywall, upgrade or failed payments
\* happen in between; a later successful payment replaces the window.
C3_SessionWindow ==
    \A key \in DOMAIN grants :
        hasAccess(key[1], key[2]) <=>
            (grants[key].t <= now /\ now < grants[key].t + grants[key].d)

\* C3 witness: a session has run out (now is at or past t + d) after an upgrade
\* and an updatePaywall happened.
C3_Witness ==
    /\ \E key \in DOMAIN grants :
          now >= grants[key].t + grants[key].d /\ ~hasAccess(key[1], key[2])
    /\ env.upgrades > 0 /\ env.updates > 0

\* C4: hasAccess(user, paywallId) is true iff a record of (user, paywallId)
\* exists and its expiry is strictly greater than the current time.
C4_HasAccessIffUnexpiredRecord ==
    \A u \in Users, p \in PaywallIds :
        hasAccess(u, p) <=>
            /\ u \in DOMAIN paidStatuses
            /\ p \in DOMAIN paidStatuses[u]
            /\ paidStatuses[u][p] > now

\* C4 witness: a user holds a record for one paywall whose expiry equals the
\* current time, and no record for another paywall id.
C4_Witness ==
    \E u \in Users, p, q \in PaywallIds :
        /\ Record(u, p) = <<now>>
        /\ Record(u, q) = <<>>
        /\ ~hasAccess(u, p) /\ ~hasAccess(u, q)


\* price + ledger fee * (number of destinations + 1), as the claims state it
StatedRequiredBalance(config) ==
    config.price_e8s + 10000 * (Len(config.destinations) + 1)

\* max(floor(price / 100), 10_000), the fee with the minimum the code uses
StatedFee(price) == IF price \div 100 >= 10000 THEN price \div 100 ELSE 10000

\* the step in which call k gets the balance of its source subaccount, which is
\* short of the stated required balance
ReadsShortBalance(k) ==
    /\ calls[k].pc = "balance"
    /\ calls'[k] # calls[k]
    /\ Balance(calls[k].sub) < StatedRequiredBalance(calls[k].config)

\* the call returns without a ledger transfer or conversion call, and neither
\* the access records nor the ledger change
FailsUntouched(k) ==
    /\ calls'[k] = Idle
    /\ last'.op = calls[k].op /\ last'.caller = calls[k].caller
    /\ last'.call.log = <<>>
    /\ paidStatuses' = paidStatuses
    /\ balances' = balances

\* C5 as claimed: a balance short of the required balance always ends the
\* attempt with the insufficient-balance error, without transfer or record.
C5_Original ==
    [][ \A k \in DOMAIN calls :
           ReadsShortBalance(k) =>
              FailsUntouched(k) /\ last'.result = "Insufficient balance"
      ]_vars

\* C5: when the balance read is short of price + ledgerFee * (destinations + 1),
\* even by one e8s, the attempt returns without any ledger transfer or
\* conversion call and without writing a record; the error is the
\* insufficient-balance error when the price covers the fee, and the
\* price-too-low error (checked first) when it does not.
C5_ShortBalanceFails ==
    [][ \A k \in DOMAIN calls :
           ReadsShortBalance(k) =>
              /\ FailsUntouched(k)
              /\ last'.result =
                    IF calls[k].config.price_e8s < StatedFee(calls[k].config.price_e8s)
                    THEN "Paywall price is too low to cover the fee."
                    ELSE "Insufficient balance"
      ]_vars

\* C5 witness: an attempt that read a balance one e8s short of the required
\* balance returned the insufficient-balance error.
C5_Witness ==
    /\ last.op \in PaymentOps /\ last.result = "Insufficient balance"
    /\ last.call.balance = StatedRequiredBalance(last.call.config) - 1
    /\ last.call.log = <<>>

\* the ledger rejected no transfer of the attempt for another reason than
\* insufficient funds
OnlyFundsRejections(c) ==
    \A i \in 1..Len(c.log) :
        c.log[i].callee \in LedgerCallees => c.log[i].reply \in {"Ok", "InsufficientFunds"}

NoNotifyFailed(c) ==
    \A i \in 1..Len(c.log) :
        c.log[i].callee \notin LedgerCallees => c.log[i].reply = "Ok"

AllFunded(c) == \A i \in 1..Len(c.log) : c.log[i].reply # "InsufficientFunds"

\* an attempt that read exactly its required balance, with no other debit of
\* its subaccount since
ReadExactlyRequired(c) ==
    /\ c.pc \notin {"getSalt", "random", "balance"}
    /\ c.balance = requiredBalance(c.config)
    /\ c.config.price_e8s >= c.fee_e8s
    /\ ~c.interfered

C7_FeeIsOnePercentOrMinimum ==
    \A c \in PaymentCalls :
        /\ c.pc \notin {"getSalt", "random", "balance"} =>
              c.fee_e8s = StatedFee(c.config.price_e8s)
        /\ Len(c.log) >= 1 =>
              /\ c.log[1].callee = "ledger.transfer" /\ c.log[1].to = "feeAccount"
              /\ c.log[1].amount = StatedFee(c.config.price_e8s)
              /\ 100 * c.log[1].amount <= Max(c.config.price_e8s, 100 * 10000)
              /\ 100 * (c.log[1].amount + 1) > c.config.price_e8s

\* C7 witness: a fee leg was sent for a price whose one percent is above the
\* minimum and not a whole number of e8s.
C7_Witness ==
    \E c \in PaymentCalls :
        /\ Len(c.log) >= 1 /\ c.log[1].reply = "Ok"
        /\ c.config.price_e8s % 100 # 0
        /\ c.log[1].amount > 10000

\* C8: the minimum protocol fee is 100_000 e8s: a price with floor(p / 100)
\* below 100_000 pays a fee of exactly 100_000 e8s, and a price below 100_000
\* e8s is rejected as too low to cover the fee.
C8_MinimumFeeIs100k ==
    \A c \in PaymentCalls :
        /\ (Len(c.log) >= 1 /\ c.config.price_e8s \div 100 < paywallMinFeeE8s) =>
              c.log[1].amount = paywallMinFeeE8s
        /\ (c.pc \notin {"getSalt", "random", "balance"}
            /\ c.config.price_e8s < paywallMinFeeE8s) =>
              (c = last.call /\ last.result = "Paywall price is too low to cover the fee.")

\* the destinations of a config are 1 to 3 and their percentages sum to 100
StatedValid(destinations) ==
    /\ Len(destinations) \in 1..3
    /\ SumSeq([i \in 1..Len(destinations) |-> destinations[i].percentage]) = 100

\* C9: every config in the store, and every config a payment works on, has 1
\* to 3 destinations whose percentages sum to exactly 100.
C9_StoredConfigsValid ==
    /\ \A id \in DOMAIN paywallConfigs : StatedValid(paywallConfigs[id].destinations)
    /\ \A i \in 1..Len(paywallConfigEntries) : StatedValid(paywallConfigEntries[i][2].destinations)
    /\ \A c \in PaymentCalls : StatedValid(c.config.destinations)

\* C9 witness: after an upgrade the store holds a config whose destinations an
\* updatePaywall replaced, and a payment has been granted for the paywall.
C9_Witness ==
    /\ env.upgrades > 0
    /\ 0 \in DOMAIN paywallConfigs
    /\ paywallConfigs[0].destinations = <<Dest("c1", 100, TRUE)>>
    /\ grants # EmptyMap

\* C10: createPaywall with no destination, more than 3, or percentages that do
\* not sum to 100 traps and stores nothing: the configs, the ownership index
\* and nextPaywallId are unchanged.
C10_InvalidCreateStoresNothing ==
    [][ (/\ last' # last
         /\ last'.op = "createPaywall"
         /\ ~StatedValid(last'.arg.destinations)) =>
            /\ last'.result = "trap"
            /\ paywallConfigs' = paywallConfigs
            /\ ownedPaywalls' = ownedPaywalls
            /\ nextPaywallId' = nextPaywallId
            /\ last'.paywallId \notin DOMAIN paywallConfigs'
      ]_vars

\* C10 witness: a createPaywall whose percentages sum to 101 trapped after an
\* earlier create had stored a config, and the counter still is 1.
C10_Witness ==
    /\ last.op = "createPaywall" /\ last.result = "trap"
    /\ SumSeq([i \in 1..Len(last.arg.destinations) |-> last.arg.destinations[i].percentage]) = 101
    /\ nextPaywallId = 1 /\ DOMAIN paywallConfigs = {0}

\* the ownership index of u contains id
StatedOwns(u, id) ==
    u \in DOMAIN ownedPaywalls /\ id \in { ownedPaywalls[u][i] : i \in 1..Len(ownedPaywalls[u]) }

\* the step is an updatePaywall call
UpdateStep == env'.updates # env.updates /\ last'.op = "updatePaywall"

\* C11: updatePaywall by a caller whose ownership index does not contain the id
\* (an owner of other paywalls, a stranger, any caller of an unknown id) changes
\* no config, no ownership entry and no access record, and returns normally.
C11_NonOwnerUpdateChangesNothing ==
    [][ (UpdateStep /\ ~StatedOwns(last'.caller, last'.paywallId)) =>
           /\ last'.result = "return"
           /\ paywallConfigs' = paywallConfigs
           /\ ownedPaywalls' = ownedPaywalls
           /\ paidStatuses' = paidStatuses
           /\ <<paywallConfigEntries, paidStatusEntries, ownedPaywallsEntries>>' =
                 <<paywallConfigEntries, paidStatusEntries, ownedPaywallsEntries>>
           /\ <<nextPaywallId, salt, balances>>' = <<nextPaywallId, salt, balances>>
      ]_vars

\* C11 witness: the owner of paywall 1 called updatePaywall for paywall 0 of
\* another owner with a new price and valid new destinations; the call returned
\* and the stored price is not the one of the update.
C11_Witness ==
    /\ last.op = "updatePaywall" /\ last.result = "return"
    /\ last.caller = "u2" /\ StatedOwns("u2", 1) /\ last.paywallId = 0
    /\ last.arg.price_e8s # <<>> /\ last.arg.destinations = << <<Dest("c1", 100, TRUE)>> >>
    /\ paywallConfigs[0].price_e8s # last.arg.price_e8s[1]
    /\ paywallConfigs[0].destinations # last.arg.destinations[1]

\* the field of the stored config after an update: the provided value, or the
\* previous one when the update does not provide the field
Merged(provided, previous) == IF provided = <<>> THEN previous ELSE provided[1]

\* C12: updatePaywall by the owner overwrites exactly the provided fields and
\* keeps the absent ones; an update without destinations is never rejected; an
\* update whose destinations fail validation traps and leaves the whole store
\* unchanged; the other configs are never touched.
C12_OwnerUpdateMergesProvidedFields ==
    [][ (UpdateStep /\ StatedOwns(last'.caller, last'.paywallId)) =>
           LET id == last'.paywallId
               up == last'.arg
               old == paywallConfigs[id]
               new == paywallConfigs'[id]
           IN /\ DOMAIN paywallConfigs' = DOMAIN paywallConfigs
              /\ \A other \in DOMAIN paywallConfigs \ {id} :
                    paywallConfigs'[other] = paywallConfigs[other]
              /\ IF up.destinations = <<>> \/ StatedValid(up.destinations[1])
                 THEN /\ last'.result = "Ok"
                      /\ new.price_e8s = Merged(up.price_e8s, old.price_e8s)
                      /\ new.target_canister = Merged(up.target_canister, old.target_canister)
                      /\ new.session_duration_ns =
                            Merged(up.session_duration_ns, old.session_duration_ns)
                      /\ new.destinations = Merged(up.destinations, old.destinations)
                 ELSE /\ last'.result = "trap"
                      /\ new = old
      ]_vars

\* C12 witness: an owner's update that provided a price and a target only was
\* applied: price and target are the new ones, duration and destinations the
\* ones the paywall was created with.
C12_Witness ==
    /\ last.op = "updatePaywall" /\ last.result = "Ok" /\ last.caller = "u1"
    /\ last.paywallId = 2
    /\ last.arg = Update(<<3000000>>, <<"d1">>, <<>>, <<>>)
    /\ paywallConfigs[2].price_e8s = 3000000 /\ paywallConfigs[2].target_canister = "d1"
    /\ paywallConfigs[2].session_duration_ns = 2
    /\ Len(paywallConfigs[2].destinations) = 2

\* C13: once the salt has been set to a non-empty value it never changes again.
C13_SaltSetOnce ==
    [][ Len(salt) # 0 => salt' = salt ]_vars

\* the step is an upgrade: preupgrade followed by postupgrade
UpgradeStep == env'.upgrades # env.upgrades

\* the ids of the records of all users
RecordKeys(paid) == { <<u, p>> : u \in DOMAIN paid, p \in PaywallIds \cup (0..RegistryPaywalls) }

\* C14: an upgrade leaves the config map, every access record, the ownership
\* index with its per-owner order, nextPaywallId and the salt as they were; the
\* stable arrays hold each entry once; hasAccess answers as before.
C14_UpgradeRoundTrip ==
    [][ UpgradeStep =>
           /\ paywallConfigs' = paywallConfigs
           /\ paidStatuses' = paidStatuses
           /\ ownedPaywalls' = ownedPaywalls
           /\ nextPaywallId' = nextPaywallId
           /\ salt' = salt
           /\ Len(paywallConfigEntries') = Cardinality(DOMAIN paywallConfigs)
           /\ { paywallConfigEntries'[i][1] : i \in 1..Len(paywallConfigEntries') } =
                 DOMAIN paywallConfigs
           /\ Len(paidStatusEntries') = Cardinality(DOMAIN paidStatuses)
           /\ \A i \in 1..Len(paidStatusEntries') :
                 Len(paidStatusEntries'[i][2]) =
                    Cardinality(DOMAIN paidStatuses[paidStatusEntries'[i][1]])
           /\ Len(ownedPaywallsEntries') = Cardinality(DOMAIN ownedPaywalls)
           /\ \A key \in RecordKeys(paidStatuses) \cup RecordKeys(paidStatuses') :
                 hasAccess(key[1], key[2])' = hasAccess(key[1], key[2])
      ]_vars

\* C14 witness: an upgrade has just run over three configs, the records of two
\* identities (one of them with two records) and two owners, one owning two
\* paywalls in creation order.
C14_Witness ==
    /\ last.op = "upgrade"
    /\ Len(paywallConfigEntries) = 3 /\ Cardinality(DOMAIN paywallConfigs) = 3
    /\ Len(paidStatusEntries) = 2 /\ DOMAIN paidStatuses["u2"] = {0, 1}
    /\ ownedPaywalls["u1"] = <<0, 2>> /\ ownedPaywalls["u2"] = <<1>>
    /\ Len(salt) = SubaccountLen /\ nextPaywallId = 3

\* the calls of the state that hold a derived subaccount: those in flight past
\* their derivation and the one that returned last
DerivedCalls ==
    { calls[k] : k \in { j \in DOMAIN calls : calls[j].pc \notin {"idle", "getSalt", "random"} } }
    \cup (IF last.call # Idle /\ last.call.pc \notin {"getSalt", "random"} THEN {last.call} ELSE {})

\* the call derives the per-user wallet subaccount (purpose "wallet"), not a
\* per-paywall deposit subaccount
WalletPurpose(c) == c.op \in {"payFromBalance", "getUserAccount", "withdrawFromWallet"}

\* C15: under the same salt and for the same identity, the per-paywall deposit
\* subaccount of any paywall id differs from the wallet subaccount.
C15_PurposeSeparation ==
    \A a \in DerivedCalls, b \in DerivedCalls :
        (/\ a.caller = b.caller /\ a.saltBlob = b.saltBlob
         /\ WalletPurpose(a) /\ ~WalletPurpose(b)) => a.sub # b.sub

\* C15 witness: the same 29-byte identity holds, under one salt, its wallet
\* subaccount and its deposit subaccount of the paywall with a 6-character id,
\* as long as "wallet".
C15_Witness ==
    \E a \in DerivedCalls, b \in DerivedCalls :
        /\ a.caller = "u2" /\ b.caller = "u2" /\ a.saltBlob = b.saltBlob
        /\ WalletPurpose(a) /\ ~WalletPurpose(b)
        /\ Len(PaywallIdText(b.paywallId)) = Len(WalletText)
        /\ a.sub # b.sub

\* the purpose bytes of a derivation
StatedPurpose(c) == IF WalletPurpose(c) THEN WalletText ELSE PaywallIdText(c.paywallId)

RECURSIVE SumAt(_, _)
\* the sum of the bytes of payload at the positions j, j + 32, j + 64, ...
SumAt(payload, j) ==
    IF j > Len(payload) THEN 0 ELSE payload[j] + SumAt(payload, j + 32)

\* position i of the output: the sum modulo 256 of the payload bytes whose index
\* is congruent to i modulo 32
StatedDerive(payload) == [i \in 1..32 |-> SumAt(payload, i) % 256]

\* call k gets its derived subaccount in the step
DeriveStep(k) ==
    /\ calls[k].pc \in {"getSalt", "random"}
    /\ calls'[k].pc \notin {"idle", "getSalt", "random"}

\* C16: the subaccount a call derives is, position by position, the sum modulo
\* 256 of the bytes of salt || purpose || identity at the indices congruent to
\* the position modulo 32; equal inputs give equal outputs; the derivation
\* changes no state but the salt, and the salt only after a Random.blob reply.
C16_DerivationIsFoldOfInputs ==
    [][ /\ \A k \in DOMAIN calls :
              DeriveStep(k) =>
                 LET c == calls'[k]
                 IN /\ c.saltBlob = salt' /\ Len(salt') = 32
                    /\ c.sub = StatedDerive(salt' \o StatedPurpose(c) \o PrincipalBlob(c.caller))
                    /\ <<paywallConfigs, paidStatuses, ownedPaywalls, nextPaywallId, balances>>' =
                          <<paywallConfigs, paidStatuses, ownedPaywalls, nextPaywallId, balances>>
                    /\ salt' # salt => calls[k].pc = "random"
        /\ \A a \in DerivedCalls', b \in DerivedCalls' :
              (/\ a.saltBlob = b.saltBlob /\ a.caller = b.caller
               /\ StatedPurpose(a) = StatedPurpose(b)) => a.sub = b.sub
      ]_vars

\* C16 witness: a subaccount was derived from a payload of more than 64 bytes
\* (salt, "wallet", a 29-byte principal), so that some positions sum three bytes.
C16_Witness ==
    \E c \in DerivedCalls :
        /\ WalletPurpose(c) /\ c.caller = "u2"
        /\ Len(c.saltBlob \o WalletText \o PrincipalBlob(c.caller)) > 64
        /\ c.sub[1] = (c.saltBlob[1] + WalletText[1] + PrincipalBlob(c.caller)[27]) % 256
        /\ c.sub[32] = (c.saltBlob[32] + PrincipalBlob(c.caller)[26]) % 256

\* the log of call k after the step, whether the call goes on or returned
LogAfter(k) == IF calls'[k] = Idle THEN last'.call.log ELSE calls'[k].log

\* call k, waiting at pc, gets a reply other than Ok in the step
FailedReply(k, pc) ==
    /\ calls[k].pc = pc
    /\ Len(LogAfter(k)) = Len(calls[k].log) + 1
    /\ LogAfter(k)[Len(LogAfter(k))].reply # "Ok"

NotifyErrors == {"CMC top-up notify failed", "CMC mint notify failed"}

\* the errors of a failed transfer, of the configuration and of the balance
OtherErrors ==
    { "Fee transfer failed", "Direct transfer failed", "CMC top-up transfer failed",
      "CMC mint transfer failed", "Invalid top-up subaccount", "Invalid mint subaccount",
      "Invalid paywall ID", "Paywall price is too low to cover the fee.",
      "Insufficient balance" }

\* C17: when the transfer to the conversion service succeeded and its notify
\* fails, the attempt returns at once with the notify error of that conversion,
\* which is none of the transfer, configuration or balance errors; the notify is
\* not issued again, no later destination is attempted, the ledger is not
\* touched and no access record is written.
C17_NotifyFailureIsTerminal ==
    [][ \A k \in DOMAIN calls :
           FailedReply(k, "notify") =>
              LET c == calls[k]
                  d == c.config.destinations[c.index + 1]
              IN /\ calls'[k] = Idle
                 /\ last'.op = c.op /\ last'.caller = c.caller
                 /\ last'.result = (IF isCanister(d.destination) THEN "CMC top-up notify failed"
                                    ELSE "CMC mint notify failed")
                 /\ last'.result \in NotifyErrors /\ last'.result \notin OtherErrors
                 /\ Len(Notifies(last'.call)) = Len(Notifies(c)) + 1
                 /\ Len(Transfers(last'.call)) = Len(Transfers(c))
                 /\ last'.call.index = c.index
                 /\ c.log[Len(c.log)].reply = "Ok" /\ c.log[Len(c.log)].to[1] = "cmc"
                 /\ paidStatuses' = paidStatuses
                 /\ balances' = balances
      ]_vars

\* C17 witness: the notify of the second of three destinations failed after
\* the fee, the first destination and the transfer to the minting canister
\* were paid; the third destination has no transfer.
C17_Witness ==
    /\ last.op \in PaymentOps /\ last.result \in NotifyErrors
    /\ Len(last.call.config.destinations) = 3 /\ last.call.index = 1
    /\ Len(last.call.log) = 4
    /\ last.call.log[3].reply = "Ok" /\ last.call.log[4].reply = "Processing"
    /\ Record(last.caller, last.paywallId) = <<>>

\* the positions of the destinations whose amount is positive, in order
PaidPositions(c) ==
    SelectSeq([i \in 1..Len(c.amounts) |-> i], LAMBDA i : c.amounts[i] > 0)

\* the destination transfers of a call, in the order they were issued
Legs(c) == SelectSeq(c.log, LAMBDA e : e.callee = "ledger.icrc1_transfer")

\* fee first, destinations in declared order, nothing after a failure
InDeclaredOrder(c) ==
    LET legs == Legs(c)
        paid == PaidPositions(c)
    IN /\ c.log # <<>> => (c.log[1].callee = "ledger.transfer" /\ c.log[1].to = "feeAccount")
       /\ \A i \in 2..Len(c.log) : c.log[i].callee # "ledger.transfer"
       /\ \A i \in 1..(Len(c.log) - 1) : c.log[i].reply = "Ok"
       /\ Len(legs) <= Len(paid)
       /\ \A j \in 1..Len(legs) :
             LET d == c.config.destinations[paid[j]]
             IN /\ legs[j].amount = c.amounts[paid[j]]
                /\ IF d.convertToCycles THEN legs[j].to[1] = "cmc"
                   ELSE legs[j].to = <<d.destination>>
       /\ \A i \in 1..Len(c.log) :
             c.log[i].callee \notin LedgerCallees =>
                /\ i > 2 /\ c.log[i - 1].callee = "ledger.icrc1_transfer"
                /\ c.log[i - 1].to[1] = "cmc"

\* C18: in every attempt the fee transfer comes first, the destinations are
\* settled one at a time in the order of the config, a failed settlement is the
\* last call of the attempt and its error is what the attempt returns, and no
\* step gives back what earlier transfers took.
C18_FeeFirstThenDeclaredOrder ==
    [][ /\ \A c \in PaymentCalls' : InDeclaredOrder(c)
        /\ \A k \in DOMAIN calls :
              (calls'[k] # Idle /\ calls'[k].op \in PaymentOps) =>
                 \A i \in 1..Len(calls'[k].log) : calls'[k].log[i].reply = "Ok"
        /\ \A k \in DOMAIN calls :
              (FailedReply(k, "pay") \/ FailedReply(k, "notify")) =>
                 /\ calls'[k] = Idle
                 /\ last'.result \in OtherErrors \cup NotifyErrors
                 /\ last'.result # "Fee transfer failed"
                 /\ balances' = balances
        /\ \A sub \in DOMAIN balances : balances'[sub] <= balances[sub]
      ]_vars

\* C18 witness: the transfer to the third destination failed after the fee and
\* two destinations (one direct, one converted) were settled; what they took
\* is still missing from the source subaccount.
C18_Witness ==
    /\ last.op \in PaymentOps /\ last.result = "Direct transfer failed"
    /\ Len(last.call.config.destinations) = 3 /\ last.call.index = 2
    /\ Len(Legs(last.call)) = 3 /\ Len(Notifies(last.call)) = 1
    /\ ~last.call.interfered
    /\ Balance(last.call.sub) = last.call.balance - Debited(last.call)
    /\ Debited(last.call) > 0

\* C19: when the fee transfer fails the attempt returns the fee-transfer
\* failure, having made that one call only: no destination transfer, no
\* conversion call, and no change of the access records, the configs, the
\* ownership index or the ledger.
C19_FeeFailureAborts ==
    [][ \A k \in DOMAIN calls :
           FailedReply(k, "fee") =>
              /\ calls'[k] = Idle
              /\ last'.op = calls[k].op /\ last'.caller = calls[k].caller
              /\ last'.result = "Fee transfer failed"
              /\ Len(last'.call.log) = 1
              /\ last'.call.log[1].callee = "ledger.transfer"
              /\ paidStatuses' = paidStatuses
              /\ paywallConfigs' = paywallConfigs
              /\ ownedPaywalls' = ownedPaywalls
              /\ balances' = balances
      ]_vars

\* C19 witness: an attempt with enough balance ended in the failure of its fee
\* transfer; the payer has no record and the balance read is still there.
C19_Witness ==
    /\ last.op \in PaymentOps /\ last.result = "Fee transfer failed"
    /\ Len(last.call.log) = 1 /\ last.call.log[1].reply = "TemporarilyUnavailable"
    /\ last.call.balance >= requiredBalance(last.call.config)
    /\ Balance(last.call.sub) = last.call.balance
    /\ Record(last.caller, last.paywallId) = <<>>

\* the step is the entry of a payFromBalance / verifyPayment call
PayBeginStep == env'.payments # env.payments

\* C20: payFromBalance / verifyPayment for an id that is not in the store
\* returns the invalid-paywall error in its first message: no call record is
\* left waiting for a reply (salt, balance, transfer), and nothing changes.
C20_UnknownPaywallFailsFast ==
    [][ PayBeginStep =>
           /\ \A k \in DOMAIN calls :
                 calls'[k] # calls[k] => calls'[k].paywallId \in DOMAIN paywallConfigs
           /\ calls' = calls =>
                 /\ last'.op \in PaymentOps
                 /\ last'.result = "Invalid paywall ID"
                 /\ last'.paywallId \notin DOMAIN paywallConfigs
                 /\ last'.call = Idle
           /\ canister' = canister
           /\ balances' = balances
      ]_vars

\* C20 witness: a payment for an unknown id was rejected while the store holds
\* a paywall and the salt has never been asked for.
C20_Witness ==
    /\ last.op \in PaymentOps /\ last.result = "Invalid paywall ID"
    /\ paywallConfigs # EmptyMap /\ last.paywallId \notin DOMAIN paywallConfigs
    /\ salt = <<>> /\ balances = EmptyMap
    /\ \A k \in DOMAIN calls : calls[k] = Idle

-----------------------------------------------------------------------------
(* Price below the fee *)

PriceTooLow == "Paywall price is too low to cover the fee."

\* C21: a payFromBalance / verifyPayment call whose config has a price below
\* the fee computed for it returns the price-below-fee error in the step that
\* follows its balance read, whatever balance it read: it never issues a
\* transfer, no access record and no balance changes in that step. The check
\* is made by the payment, so the store can hold such a config.
C21_PriceBelowFeeRejected ==
    [][ /\ \A k \in DOMAIN calls :
              ( /\ calls[k].pc = "balance"
                /\ calls[k].config.price_e8s < StatedFee(calls[k].config.price_e8s)
                /\ calls'[k] # calls[k] ) =>
                    /\ calls'[k] = Idle
                    /\ last'.op = calls[k].op /\ last'.caller = calls[k].caller
                    /\ last'.result = PriceTooLow
                    /\ last'.call.log = <<>>
                    /\ paidStatuses' = paidStatuses
                    /\ balances' = balances
        /\ \A c \in PaymentCalls' :
              c.config.price_e8s < StatedFee(c.config.price_e8s) =>
                 c.log = <<>> /\ c.pc \notin {"fee", "pay", "notify"}
      ]_vars

\* C21 witness: a payment was rejected for its price although the balance it
\* read covered price and ledger fees, and the store still holds the config
\* with the price below its fee.
C21_Witness ==
    /\ last.op \in PaymentOps /\ last.result = PriceTooLow
    /\ last.call.balance >= StatedRequiredBalance(last.call.config)
    /\ last.paywallId \in DOMAIN paywallConfigs
    /\ paywallConfigs[last.paywallId].price_e8s
          < StatedFee(paywallConfigs[last.paywallId].price_e8s)

-----------------------------------------------------------------------------
(* Creating paywalls: createPaywall of two creators with updatePaywall and an
   upgrade in between *)

CreatePaywalls == 3

InitCreate ==
    /\ paywallConfigs = EmptyMap
    /\ paidStatuses = EmptyMap
    /\ ownedPaywalls = EmptyMap
    /\ paywallConfigEntries = <<>>
    /\ paidStatusEntries = <<>>
    /\ ownedPaywallsEntries = <<>>
    /\ nextPaywallId = 0
    /\ salt = <<>>
    /\ now = 0
    /\ balances = EmptyMap
    /\ calls = [k \in CallIds |-> Idle]
    /\ last = NoCall
    /\ grants = EmptyMap
    /\ env = [deposits |-> 0, upgrades |-> 0, updates |-> 0, payments |-> 0,
              paywallLimit |-> CreatePaywalls, updateLimit |-> MaxUpdates,
              paymentLimit |-> MaxPayments]

NextCreate ==
    \/ \E caller \in Users, config \in CreateConfigs : createPaywall(caller, config)
    \/ \E caller \in Users, id \in 0..CreatePaywalls, updates \in Updates :
          updatePaywall(caller, id, updates)
    \/ Upgrade

SpecCreate == InitCreate /\ [][NextCreate]_vars

\* a createPaywall call returned an id in the step
CreateReturned == last'.op = "createPaywall" /\ last'.result = "Ok" /\ last' # last

\* C22: every successful createPaywall returns "pw-N" with N above the N of
\* every id returned before (the stored ids: none ever leaves the store), so
\* no id is returned twice; it stores its config under an id that held none
\* and leaves every other config alone; the counter never goes back, across
\* failed creates, updates and upgrades.
C22_IdsStrictlyIncrease ==
    [][ /\ nextPaywallId' >= nextPaywallId
        /\ DOMAIN paywallConfigs \subseteq DOMAIN paywallConfigs'
        /\ CreateReturned =>
              LET n == last'.paywallId
              IN /\ n \notin DOMAIN paywallConfigs
                 /\ \A id \in DOMAIN paywallConfigs :
                       /\ id < n
                       /\ PaywallIdText(id) # PaywallIdText(n)
                       /\ paywallConfigs'[id] = paywallConfigs[id]
                 /\ DOMAIN paywallConfigs' = DOMAIN paywallConfigs \cup {n}
                 /\ paywallConfigs'[n] = last'.arg
                 /\ n < nextPaywallId'
        /\ (last'.op = "createPaywall" /\ last'.result = "trap" /\ last' # last) =>
              /\ nextPaywallId' = nextPaywallId
              /\ paywallConfigs' = paywallConfigs
      ]_vars

\* C22 witness: the third paywall was created, by the last call, after an
\* upgrade and an update; the store holds the ids 0, 1 and 2.
C22_Witness ==
    /\ last.op = "createPaywall" /\ last.result = "Ok" /\ last.paywallId = 2
    /\ DOMAIN paywallConfigs = {0, 1, 2}
    /\ env.upgrades > 0 /\ env.updates > 0

\* the list of an owner in the ownership index
OwnedBy(index, owner) == IF owner \in DOMAIN index THEN index[owner] ELSE <<>>

IsPrefix(s, t) == Len(s) <= Len(t) /\ SubSeq(t, 1, Len(s)) = s

\* the positions of the index at which id is listed
Listings(index, id) ==
    { <<o, i>> \in UNION { {o} \X (1..Len(index[o])) : o \in DOMAIN index } :
         index[o][i] = id }

\* C23: the ownership index changes only in the step of a successful
\* createPaywall, which appends the new id at the end of its caller's list and
\* leaves the other lists alone; no step removes or reorders an id; every stored
\* id is listed exactly once, and every listed id has a stored config.
C23_OwnershipIndexAppendOnly ==
    [][ /\ \A o \in DOMAIN ownedPaywalls :
              /\ o \in DOMAIN ownedPaywalls'
              /\ IsPrefix(ownedPaywalls[o], ownedPaywalls'[o])
        /\ CreateReturned <=> ownedPaywalls' # ownedPaywalls
        /\ CreateReturned =>
              /\ ownedPaywalls'[last'.caller]
                    = Append(OwnedBy(ownedPaywalls, last'.caller), last'.paywallId)
              /\ \A o \in DOMAIN ownedPaywalls' \ {last'.caller} :
                    OwnedBy(ownedPaywalls, o) = ownedPaywalls'[o]
        /\ \A id \in DOMAIN paywallConfigs' :
              Cardinality(Listings(ownedPaywalls', id)) = 1
        /\ \A o \in DOMAIN ownedPaywalls' :
              \A i \in 1..Len(ownedPaywalls'[o]) :
                 ownedPaywalls'[o][i] \in DOMAIN paywallConfigs'
      ]_vars

\* C23 witness: one creator owns two paywalls in creation order around one of
\* the other creator, and the index went through an upgrade.
C23_Witness ==
    /\ OwnedBy(ownedPaywalls, "u1") = <<0, 2>>
    /\ OwnedBy(ownedPaywalls, "u2") = <<1>>
    /\ env.upgrades > 0
    /\ ownedPaywallsEntries # <<>>

-----------------------------------------------------------------------------
(* Updating one paywall twice: two updatePaywall calls on the paywall of u1,
   the clock and an upgrade in between *)

UpdateCalls == 2

\* the partial updates of these runs: two values per scalar field, valid and
\* invalid destination lists
ConcurrentUpdates ==
    { Update(p, t, d, l) :
        p \in {<<>>, <<3000000>>, <<4000000>>}, t \in {<<>>, <<"d1">>},
        d \in {<<>>, <<1>>, <<3>>},
        l \in { <<>>,
                << <<Dest("c1", 100, TRUE)>> >>,
                << <<Dest("d1", 60, FALSE), Dest("c1", 41, FALSE)>> >> } }

\* the state after createPaywall(UpdateBase) by u1
InitUpdates ==
    /\ paywallConfigs = Put(EmptyMap, 0, UpdateBase)
    /\ paidStatuses = EmptyMap
    /\ ownedPaywalls = Put(EmptyMap, "u1", <<0>>)
    /\ paywallConfigEntries = <<>>
    /\ paidStatusEntries = <<>>
    /\ ownedPaywallsEntries = <<>>
    /\ nextPaywallId = 1
    /\ salt = <<>>
    /\ now = 0
    /\ balances = EmptyMap
    /\ calls = [k \in CallIds |-> Idle]
    /\ last = Completed("createPaywall", "u1", 0, "Ok", UpdateBase, Idle)
    /\ grants = EmptyMap
    /\ env = [deposits |-> 0, upgrades |-> 0, updates |-> 0, payments |-> 0,
              paywallLimit |-> MaxPaywalls, updateLimit |-> UpdateCalls,
              paymentLimit |-> MaxPayments]

NextUpdates ==
    \/ \E caller \in Users, updates \in ConcurrentUpdates : updatePaywall(caller, 0, updates)
    \/ Tick
    \/ Upgrade

SpecUpdates == InitUpdates /\ [][NextUpdates]_vars

\* the config an owner's update leaves: the merge, or the config as it was when
\* the destinations of the update are rejected
Applied(config, up) ==
    IF up.destinations # <<>> /\ ~StatedValid(up.destinations[1]) THEN config
    ELSE [price_e8s |-> Merged(up.price_e8s, config.price_e8s),
          target_canister |-> Merged(up.target_canister, config.target_canister),
          session_duration_ns |-> Merged(up.session_duration_ns, config.session_duration_ns),
          destinations |-> Merged(up.destinations, config.destinations)]

\* C24: two updatePaywall calls of the owner on the same paywall, with other
\* steps between them, lose no update: the stored config after the second is
\* the config as created with the first update applied and then the second,
\* so a field only the first one provided keeps the first one's value.
C24_NoLostUpdate ==
    [][ ( /\ UpdateStep /\ env.updates = 1
          /\ last.op = "updatePaywall" /\ last.paywallId = 0 /\ last'.paywallId = 0
          /\ StatedOwns(last.caller, 0) /\ StatedOwns(last'.caller, 0) ) =>
             LET first == last.arg
                 second == last'.arg
                 new == paywallConfigs'[0]
             IN /\ new = Applied(Applied(UpdateBase, first), second)
                /\ (last.result = "Ok" /\ last'.result = "Ok") =>
                      /\ (first.price_e8s # <<>> /\ second.price_e8s = <<>>) =>
                            new.price_e8s = first.price_e8s[1]
                      /\ (first.session_duration_ns # <<>> /\ second.session_duration_ns = <<>>) =>
                            new.session_duration_ns = first.session_duration_ns[1]
                      /\ (first.target_canister # <<>> /\ second.target_canister = <<>>) =>
                            new.target_canister = first.target_canister[1]
                      /\ (first.destinations # <<>> /\ second.destinations = <<>>) =>
                            new.destinations = first.destinations[1]
      ]_vars

\* C24 witness: the owner updated the price and then, after the clock moved,
\* the duration: the stored config has both new values and differs from the
\* config as created in both.
C24_Witness ==
    /\ env.updates = 2 /\ now > 0
    /\ last.op = "updatePaywall" /\ last.result = "Ok" /\ last.caller = "u1"
    /\ last.arg.price_e8s = <<>> /\ last.arg.session_duration_ns = <<3>>
    /\ paywallConfigs[0].price_e8s = 4000000
    /\ paywallConfigs[0].session_duration_ns = 3
    /\ paywallConfigs[0].destinations = UpdateBase.destinations

-----------------------------------------------------------------------------
(* Concurrent payments from one subaccount *)

\* C25: nothing serialises the payments that draw on one subaccount: whether a
\* call passes its balance check depends only on its config and on what the
\* ledger holds at that moment, not on other calls that passed the check and
\* have not transferred yet; the check itself moves no funds. So two calls can
\* both read the same balance and both pass before either transfers.
C25_NoPerSubaccountSerialization ==
    [][ \A k \in DOMAIN calls :
           (calls[k].pc = "balance" /\ calls'[k] # calls[k]) =>
              LET c == calls[k]
                  passes == /\ c.config.price_e8s >= StatedFee(c.config.price_e8s)
                            /\ Balance(c.sub) >= StatedRequiredBalance(c.config)
              IN /\ passes <=> calls'[k].pc = "fee"
                 /\ passes => /\ calls'[k].balance = Balance(c.sub)
                              /\ calls'[k].log = <<>>
                 /\ ~passes => calls'[k] = Idle
                 /\ balances' = balances
                 /\ \A j \in DOMAIN calls \ {k} : calls'[j] = calls[j]
      ]_vars

\* C25 witness: two calls on the same subaccount have both read the same
\* balance and passed the check, neither has issued a transfer, and the
\* subaccount holds less than the two of them need together.
C25_Witness ==
    \E j, k \in DOMAIN calls :
        /\ j # k
        /\ calls[j].pc = "fee" /\ calls[k].pc = "fee"
        /\ calls[j].sub = calls[k].sub
        /\ calls[j].balance = calls[k].balance /\ calls[j].balance = Balance(calls[j].sub)
        /\ calls[j].log = <<>> /\ calls[k].log = <<>>
        /\ Balance(calls[j].sub)
              < StatedRequiredBalance(calls[j].config) + StatedRequiredBalance(calls[k].config)

-----------------------------------------------------------------------------
(* Frontend handshake: window.paywallHandshake of the paywall script in the
   page of a visitor, against the hasAccess query of the canister.  The page
   (env.page) holds the script's tamperContext and tamperDetected and whether
   the AuthClient of the page is authenticated. *)

HandshakeCalls == 2

\* the locals of a paywallHandshake call: the callback it was given, how often
\* it invoked it, and what its awaits returned
NewHandshake(identity, paywallId, onFailure) ==
    [op |-> "paywallHandshake", caller |-> identity, paywallId |-> paywallId,
     pc |-> "create", onFailure |-> onFailure, invoked |-> 0,
     isAuthed |-> FALSE, hasAccess |-> FALSE, tamperOk |-> FALSE, thrown |-> FALSE]

\* if (onFailure) onFailure();
InvokeOnFailure(c) ==
    IF c.onFailure = "callback" THEN [c EXCEPT !.invoked = @ + 1] ELSE c

\* mutant: the result of the tamper check is not looked at
HandshakeResult_IgnoreTamper(hasAccessReply, tamperOk) == hasAccessReply

\* if (!tamperOk) return false; ... return hasAccess;
HandshakeResult(hasAccessReply, tamperOk) ==
    IF ~tamperOk THEN FALSE ELSE hasAccessReply

\* the promise of the handshake resolves
HandshakeReturn(k, c, value) ==
    /\ calls' = [calls EXCEPT ![k] = Idle]
    /\ last' = Completed(c.op, c.caller, c.paywallId,
                         IF value THEN "true" ELSE "false", c.onFailure, c)

\* catch (error) { if (onFailure) onFailure(); return false; }
HandshakeCatch(k, c) ==
    HandshakeReturn(k, InvokeOnFailure([c EXCEPT !.thrown = TRUE]), FALSE)

\* the end of the handshake, once runTamperCheck has answered tamperOk
HandshakeFinish(k, c0, tamperOk) ==
    LET c == [c0 EXCEPT !.tamperOk = tamperOk]
        value == HandshakeResult(c.hasAccess, tamperOk)
    IN HandshakeReturn(k, IF value THEN c ELSE InvokeOnFailure(c), value)

\* paywallHandshake(onFailure) up to its first await
HandshakeBegin(k, identity, paywallId, onFailure) ==
    /\ calls[k].pc = "idle"
    /\ env.payments < env.paymentLimit
    /\ env' = [env EXCEPT !.payments = @ + 1]
    /\ LET c == NewHandshake(identity, paywallId, onFailure)
       IN IF env.page.tamperDetected
          THEN HandshakeReturn(k, InvokeOnFailure(c), FALSE)
          ELSE calls' = [calls EXCEPT ![k] = c] /\ UNCHANGED last
    /\ UNCHANGED <<canister, now, balances, grants>>

\* AuthClient.create() answered
HandshakeCreate(k, reply) ==
    /\ calls[k].pc = "create"
    /\ reply \in {"ok", "throw"}
    /\ IF reply = "throw" THEN HandshakeCatch(k, calls[k])
       ELSE /\ calls' = [calls EXCEPT ![k] = [calls[k] EXCEPT !.pc = "isAuthenticated"]]
            /\ UNCHANGED last
    /\ UNCHANGED <<canister, now, balances, grants, env>>

\* authClient.isAuthenticated() answered
HandshakeIsAuthenticated(k, reply) ==
    /\ calls[k].pc = "isAuthenticated"
    /\ reply \in {"ok", "throw"}
    /\ LET c == [calls[k] EXCEPT !.isAuthed = env.page.authenticated]
       IN IF reply = "throw" THEN HandshakeCatch(k, calls[k])
          ELSE IF ~c.isAuthed THEN HandshakeReturn(k, InvokeOnFailure(c), FALSE)
          ELSE /\ calls' = [calls EXCEPT ![k] = [c EXCEPT !.pc = "hasAccess"]]
               /\ UNCHANGED last
    /\ UNCHANGED <<canister, now, balances, grants, env>>

\* authedActor.hasAccess(principal, paywallId) answered, then runTamperCheck up
\* to its await of checkScriptIntegrity
HandshakeHasAccess(k, reply) ==
    /\ calls[k].pc = "hasAccess"
    /\ reply \in {"ok", "throw"}
    /\ LET c == [calls[k] EXCEPT !.hasAccess = hasAccess(calls[k].caller, calls[k].paywallId)]
       IN IF reply = "throw" THEN HandshakeCatch(k, calls[k])
          ELSE IF ~env.page.tamperContext \/ env.page.tamperDetected
          THEN HandshakeFinish(k, c, ~env.page.tamperDetected)
          ELSE /\ calls' = [calls EXCEPT ![k] = [c EXCEPT !.pc = "integrity"]]
               /\ UNCHANGED last
    /\ UNCHANGED <<canister, now, balances, grants, env>>

\* checkScriptIntegrity answered, then detectDevTools and the rest of the handshake
HandshakeIntegrity(k, reply, devToolsOpen) ==
    /\ calls[k].pc = "integrity"
    /\ reply \in {"ok", "mismatch", "throw"}
    /\ IF reply = "throw"
       THEN HandshakeCatch(k, calls[k]) /\ UNCHANGED env
       ELSE LET detected == env.page.tamperDetected \/ reply = "mismatch" \/ devToolsOpen
            IN /\ env' = [env EXCEPT !.page.tamperDetected = detected]
               /\ HandshakeFinish(k, calls[k], ~detected)
    /\ UNCHANGED <<canister, now, balances, grants>>

\* markTamper called by the interval check or an overlay observer of the page
MarkTamper ==
    /\ ~env.page.tamperDetected
    /\ \E k \in DOMAIN calls : calls[k].pc # "idle"
    /\ env' = [env EXCEPT !.page.tamperDetected = TRUE]
    /\ UNCHANGED <<canister, now, balances, calls, last, grants>>

\* the expiries of the visitor's access record when the page loads: none, or one
HandshakeRecords == {<<>>} \cup { <<e>> : e \in 1..MaxTime }

InitHandshake ==
    /\ paywallConfigs = Put(EmptyMap, 0, UpdateBase)
    /\ \E r \in HandshakeRecords :
          paidStatuses = IF r = <<>> THEN EmptyMap
                         ELSE Put(EmptyMap, "u2", Put(EmptyMap, 0, r[1]))
    /\ ownedPaywalls = Put(EmptyMap, "u1", <<0>>)
    /\ paywallConfigEntries = <<>>
    /\ paidStatusEntries = <<>>
    /\ ownedPaywallsEntries = <<>>
    /\ nextPaywallId = 1
    /\ salt = <<>>
    /\ now = 0
    /\ balances = EmptyMap
    /\ calls = [k \in 1..HandshakeCalls |-> Idle]
    /\ last = NoCall
    /\ grants = EmptyMap
    /\ \E context, detected, authenticated \in BOOLEAN :
          env = [deposits |-> 0, upgrades |-> 0, updates |-> 0, payments |-> 0,
                 paywallLimit |-> MaxPaywalls, updateLimit |-> MaxUpdates,
                 paymentLimit |-> MaxPayments,
                 page |-> [tamperContext |-> context, tamperDetected |-> detected,
                           authenticated |-> authenticated]]

NextHandshake ==
    \/ \E k \in 1..HandshakeCalls, onFailure \in {"none", "callback"} :
          HandshakeBegin(k, "u2", 0, onFailure)
    \/ \E k \in 1..HandshakeCalls, reply \in {"ok", "throw"} : HandshakeCreate(k, reply)
    \/ \E k \in 1..HandshakeCalls, reply \in {"ok", "throw"} : HandshakeIsAuthenticated(k, reply)
    \/ \E k \in 1..HandshakeCalls, reply \in {"ok", "throw"} : HandshakeHasAccess(k, reply)
    \/ \E k \in 1..HandshakeCalls, reply \in {"ok", "mismatch", "throw"}, open \in BOOLEAN :
          HandshakeIntegrity(k, reply, open)
    \/ MarkTamper
    \/ Tick

SpecHandshake == InitHandshake /\ [][NextHandshake]_vars

\* C26: paywallHandshake(onFailure) resolves to true or to false. It resolves
\* to true only if the page has detected no tampering up to that moment, its
\* own check included, the visitor is authenticated and the hasAccess query it
\* sent returned true for the visitor and the paywall; whenever it resolves to
\* false the callback it was given has been invoked. The value the query
\* returned is the one hasAccess has in the canister at that moment.
C26_HandshakeTrueOnlyWithAccess ==
    [][ /\ (last'.op = "paywallHandshake" /\ last' # last) =>
              LET c == last'.call
              IN /\ last'.result \in {"true", "false"}
                 /\ last'.result = "true" =>
                       /\ ~env.page.tamperDetected /\ ~env'.page.tamperDetected
                       /\ env.page.authenticated /\ c.isAuthed
                       /\ c.hasAccess /\ ~c.thrown
                       /\ c.invoked = 0
                 /\ (last'.result = "false" /\ c.onFailure = "callback") => c.invoked >= 1
                 /\ ( /\ ~env'.page.tamperDetected /\ c.isAuthed /\ c.hasAccess
                      /\ ~c.thrown ) => last'.result = "true"
        /\ \A k \in DOMAIN calls :
              ( /\ calls[k].pc = "hasAccess" /\ calls'[k] # calls[k]
                /\ ~(calls'[k] = Idle /\ last'.call.thrown) ) =>
                 LET c == IF calls'[k] = Idle THEN last'.call ELSE calls'[k]
                 IN c.hasAccess = hasAccess(calls[k].caller, calls[k].paywallId)
      ]_vars

\* C26 witness: an authenticated visitor with access ran the handshake with a
\* callback; the query returned true, the page detected tampering meanwhile,
\* and the handshake resolved to false after invoking the callback.
C26_Witness ==
    /\ last.op = "paywallHandshake" /\ last.result = "false"
    /\ last.arg = "callback" /\ last.call.invoked = 1
    /\ last.call.isAuthed /\ last.call.hasAccess /\ ~last.call.thrown
    /\ env.page.tamperDetected

-----------------------------------------------------------------------------
(* Deposit slots of two visitors: getPaymentAccount and getUserAccount of two
   self-authenticating principals over a store of SlotPaywalls paywalls *)

SlotPaywalls == 1001     \* paywalls in the store: ids "pw-0" .. "pw-1000"

SlotCallers == {"p1", "q1"}

\* ids of 6 and of 7 characters
SlotIds == {300, SlotPaywalls - 1}

InitSlots ==
    /\ paywallConfigs = [id \in 0..(SlotPaywalls - 1) |-> AccountConfig]
    /\ ownedPaywalls = Put(EmptyMap, "u1", [i \in 1..SlotPaywalls |-> i - 1])
    /\ paidStatuses = EmptyMap
    /\ paywallConfigEntries = <<>>
    /\ paidStatusEntries = <<>>
    /\ ownedPaywallsEntries = <<>>
    /\ nextPaywallId = SlotPaywalls
    /\ salt = <<>>
    /\ now = 0
    /\ balances = EmptyMap
    /\ calls = [k \in 1..AccountCalls |-> Idle]
    /\ last = NoCall
    /\ grants = EmptyMap
    /\ env = [deposits |-> 0, upgrades |-> 0, updates |-> 0, payments |-> 0,
              paywallLimit |-> MaxPaywalls, updateLimit |-> MaxUpdates,
              paymentLimit |-> MaxPayments]

NextSlots ==
    \/ \E k \in DOMAIN calls, u \in SlotCallers :
          AccountBegin(k, "getUserAccount", u, 0, 0)
    \/ \E k \in DOMAIN calls, u \in SlotCallers, id \in SlotIds :
          AccountBegin(k, "getPaymentAccount", u, id, 0)
    \/ \E k \in DOMAIN calls : GetSalt(k)
    \/ \E k \in DOMAIN calls, r \in RandomBlobs : SetSalt(k, r)
    \/ \E k \in DOMAIN calls : ReturnAccount(k)

SpecSlots == InitSlots /\ [][NextSlots]_vars

\* C27: under one salt, two derivations with different (purpose, identity)
\* pairs never give the same subaccount.
C27_SlotsIsolated ==
    \A a \in DerivedCalls, b \in DerivedCalls :
        ( /\ a.saltBlob = b.saltBlob
          /\ <<StatedPurpose(a), a.caller>> # <<StatedPurpose(b), b.caller>> ) =>
             a.sub # b.sub

-----------------------------------------------------------------------------
(* The amounts of the split *)

\* amount is floor(net * percentage / 100): 100 * amount <= net * percentage
\* < 100 * (amount + 1), written for net = 100 q + r without forming the product
IsFloorShare(amount, net, percentage) ==
    LET over == (net % 100) * percentage - 100 * (amount - (net \div 100) * percentage)
    IN 0 <= over /\ over < 100

\* the percentages of a destination list
Percentages(config) ==
    [i \in 1..Len(config.destinations) |-> config.destinations[i].percentage]

\* C28: with net = price - fee, every destination but the last is assigned
\* floor(net * percentage / 100), and the last one net minus the sum of the
\* amounts before it, whatever its own percentage (0 included); two payments of
\* the same config are assigned the same amounts. For the price 100_000_000
\* (fee 1_000_000, net 99_000_000) and the percentages 33, 33, 34 the amounts
\* are 32_670_000, 32_670_000 and 33_660_000.
C28_SplitAmounts ==
    /\ \A c \in PaymentCalls :
          LET net == c.config.price_e8s - c.fee_e8s
              n == Len(c.config.destinations)
          IN \A i \in 1..Len(c.amounts) :
                IF i < n
                THEN IsFloorShare(c.amounts[i], net, c.config.destinations[i].percentage)
                ELSE c.amounts[i] = net - SumSeq(SubSeq(c.amounts, 1, i - 1))
    /\ \A a \in PaymentCalls, b \in PaymentCalls :
          (a.config = b.config /\ Len(a.amounts) <= Len(b.amounts)) =>
             a.amounts = SubSeq(b.amounts, 1, Len(a.amounts))
    /\ \A c \in PaymentCalls :
          ( /\ c.config.price_e8s = 100000000 /\ Percentages(c.config) = <<33, 33, 34>>
            /\ Len(c.amounts) = 3 ) =>
               /\ c.fee_e8s = 1000000
               /\ c.amounts = <<32670000, 32670000, 33660000>>

\* C28 witness: a payment of the price 100_000_000 over the percentages 33, 33
\* and 34 succeeded and moved 32_670_000, 32_670_000 and 33_660_000 e8s to its
\* destinations.
C28_Witness ==
    /\ last.op \in PaymentOps /\ last.result = "Ok"
    /\ last.call.config.price_e8s = 100000000
    /\ Percentages(last.call.config) = <<33, 33, 34>>
    /\ last.call.amounts = <<32670000, 32670000, 33660000>>
    /\ Distributed(last.call) = 99000000

-----------------------------------------------------------------------------
(* The expiry a payment writes *)

\* C29: the step in which a payment returns Ok sets the record of its caller
\* and paywall to the time of that step plus the session duration of the
\* config the call holds, whatever record was there before, and touches no
\* other record: a payment made while access is active does not add to the
\* running session.
C29_ExpiryReplaced ==
    [][ \A k \in DOMAIN calls :
           (Returned(k) /\ calls[k].op \in PaymentOps /\ last'.result = "Ok") =>
              LET c == calls[k]
              IN /\ now' = now
                 /\ last'.caller = c.caller /\ last'.paywallId = c.paywallId
                 /\ \A u \in Users, p \in PaywallIds :
                       IF <<u, p>> = <<c.caller, c.paywallId>>
                       THEN Record(u, p)' = <<now + c.config.session_duration_ns>>
                       ELSE Record(u, p)' = Record(u, p)
      ]_vars

\* C29 witness: the last payment succeeded while an earlier session of the
\* same pair had not run out, and the record it wrote ends before that earlier
\* session would have ended.
C29_Witness ==
    /\ last.op \in PaymentOps /\ last.result = "Ok"
    /\ LET key == <<last.caller, last.paywallId>>
       IN /\ key \in DOMAIN grants
          /\ Record(last.caller, last.paywallId) = <<grants[key].t + grants[key].d>>
          /\ grants[key].t < grants[key].best
          /\ grants[key].t + grants[key].d < grants[key].best

-----------------------------------------------------------------------------
(* Routing of one destination *)

\* the subaccount of the minting canister for a destination: the length of the
\* principal, its bytes, zeros up to 32 bytes
StatedCmcSubaccount(destination) ==
    LET bytes == PrincipalBlob(destination)
    IN << [i \in 1..32 |-> IF i = 1 THEN Len(bytes)
                           ELSE IF i <= Len(bytes) + 1 THEN bytes[i - 1] ELSE 0] >>

\* the destination that entry i of the log of c, a transfer to a destination,
\* settles: the transfers follow the destinations with a positive amount
Settled(c, i) ==
    LET before == SelectSeq(SubSeq(c.log, 1, i), LAMBDA e : e.callee = "ledger.icrc1_transfer")
    IN c.config.destinations[PaidPositions(c)[Len(before)]]

\* the transfer at entry i and what follows it are those of the destination's route
RoutedAt(c, i) ==
    LET e == c.log[i]
        d == Settled(c, i)
        shaped == Len(PrincipalBlob(d.destination)) = 10
        isLast == i = Len(c.log)
    IN IF ~d.convertToCycles
       THEN /\ e.to = <<d.destination>>
            /\ "memo" \notin DOMAIN e
            /\ IF isLast THEN c.pc # "notify"
               ELSE c.log[i + 1].callee = "ledger.icrc1_transfer"
       ELSE /\ e.to = <<"cmc", StatedCmcSubaccount(d.destination)>>
            /\ e.memo = IF shaped THEN TopUpMemo ELSE MintMemo
            /\ IF e.reply = "Ok"
               THEN IF isLast THEN c.pc = "notify"
                    ELSE /\ c.log[i + 1].callee =
                               IF shaped THEN "cmc.notify_top_up" ELSE "cmc.notify_mint_cycles"
                         /\ c.log[i + 1].to = <<d.destination>>
                         /\ (i + 1 < Len(c.log)) =>
                               c.log[i + 2].callee = "ledger.icrc1_transfer"
               ELSE isLast /\ c.pc # "notify"

\* C30: a destination without conversion is settled by exactly one direct
\* transfer to its default account and no call to the minting canister; one
\* with conversion by exactly one transfer to the minting canister's account
\* under the subaccount built from the destination, followed by exactly one
\* notify only if the transfer succeeded; transfer memo and notify method are
\* the top-up ones (TPUP, notify_top_up) iff the destination principal has 10
\* bytes, and the mint ones (MINT, notify_mint_cycles) otherwise.
C30_SettlementRouting ==
    \A c \in PaymentCalls :
        /\ Len(Legs(c)) <= Len(PaidPositions(c))
        /\ (last.result = "Ok" /\ c = last.call) => Len(Legs(c)) = Len(PaidPositions(c))
        /\ \A i \in 1..Len(c.log) :
              /\ c.log[i].callee = "ledger.icrc1_transfer" => RoutedAt(c, i)
              /\ c.log[i].callee \in {"cmc.notify_top_up", "cmc.notify_mint_cycles"} =>
                    /\ i > 1
                    /\ c.log[i - 1].callee = "ledger.icrc1_transfer"
                    /\ c.log[i - 1].reply = "Ok"
                    /\ c.log[i - 1].to[1] = "cmc"
              /\ c.log[i].callee \in
                    {"ledger.transfer", "ledger.icrc1_transfer",
                     "cmc.notify_top_up", "cmc.notify_mint_cycles"}

\* C30 witness: a payment settled a direct destination by one transfer to it
\* and a canister destination with conversion by one transfer to the minting
\* canister with the TPUP memo followed by one notify_top_up.
C30_Witness ==
    /\ last.op \in PaymentOps /\ last.result = "Ok"
    /\ Len(last.call.log) = 5
    /\ last.call.log[2].to = <<"d1">>
    /\ last.call.log[3].to = <<"cmc", StatedCmcSubaccount("c1")>>
    /\ last.call.log[3].memo = TopUpMemo
    /\ last.call.log[4].callee = "cmc.notify_top_up" /\ last.call.log[4].to = <<"c1">>
    /\ last.call.log[5].callee = "ledger.icrc1_transfer" /\ last.call.log[5].to = <<"d1">>

-----------------------------------------------------------------------------
(* The two entry points *)

\* an external call as it was issued: the log entry without its reply
Request(e) ==
    IF "memo" \in DOMAIN e THEN <<e.callee, e.to, e.amount, e.memo>>
    ELSE <<e.callee, e.to, e.amount>>

Requests(c) == IF c = Idle THEN <<>> ELSE [i \in 1..Len(c.log) |-> Request(c.log[i])]

Replies(c) == IF c = Idle THEN <<>> ELSE [i \in 1..Len(c.log) |-> c.log[i].reply]

\* two completed calls found the same config and read the same balance, and the
\* replies to one are the first replies to the other
SameInputs(a, b) ==
    /\ (a = Idle) = (b = Idle)
    /\ a # Idle => a.config = b.config /\ a.balance = b.balance
    /\ IsPrefix(Replies(a), Replies(b)) \/ IsPrefix(Replies(b), Replies(a))

-----------------------------------------------------------------------------
(* Retries *)

\* a step of a payment call that has not reached its fee leg: its entry, its
\* derivation, its balance reading and the checks
EarlyStep ==
    \/ env'.payments # env.payments
    \/ \E k \in DOMAIN calls :
          calls[k].pc \in {"getSalt", "random", "balance"} /\ calls'[k] # calls[k]

\* a payment that failed after its fee leg was repeated on the same config, and
\* the repetition read what the failed attempt had left and reached its fee leg
RetryStep ==
    /\ last' # last
    /\ last.op \in PaymentOps /\ last'.op = last.op
    /\ last'.caller = last.caller /\ last'.paywallId = last.paywallId
    /\ last.call # Idle /\ last'.call # Idle
    /\ last.result # "Ok"
    /\ Len(last.call.log) >= 1 /\ last.call.log[1].reply = "Ok"
    /\ last'.call.config = last.call.config
    /\ last'.call.balance = last.call.balance - Debited(last.call)
    /\ Len(last'.call.log) >= 1

\* what the repetition of a payment that failed after the fee leg does: it asks
\* for the fee again and for every leg again, in the same order and with the same
\* amounts, and what it transfers is debited on top of what the failed attempt
\* had transferred
RetrySettlesAgain ==
    RetryStep =>
       LET first == last.call
           retry == last'.call
           common == IF Len(first.log) < Len(retry.log) THEN Len(first.log)
                     ELSE Len(retry.log)
       IN /\ Requests(retry)[1] = Requests(first)[1]
          /\ retry.log[1].callee = "ledger.transfer"
          /\ \A i \in 1..common : Requests(retry)[i] = Requests(first)[i]
          /\ last'.result = "Ok" =>
                /\ IsPrefix(Requests(first), Requests(retry))
                /\ retry.sub \in DOMAIN balances'
                /\ balances'[retry.sub] =
                      first.balance - Debited(first) - Debited(retry)

\* C32 as stated: no step of a payment attempt before its fee leg changes any
\* state of the canister, the salt included, or any balance; and the repetition
\* of a payment that failed after the fee leg transfers the fee again and
\* settles again every destination the failed attempt had settled.
C32_Original ==
    [][ /\ EarlyStep =>
             UNCHANGED <<paywallConfigs, paidStatuses, ownedPaywalls, paywallConfigEntries,
                         paidStatusEntries, ownedPaywallsEntries, nextPaywallId, salt,
                         balances>>
        /\ RetrySettlesAgain ]_vars

\* C32: no step of a payment attempt before its fee leg changes a stored config,
\* an access record, the ownership index, the id counter or a balance, and the
\* only other state it may change is the salt, in the step of getSalt that stores
\* a random blob; so the repetition of a payment that failed with an unknown id,
\* a price below the fee or a short balance finds them as they were.  The
\* repetition of a payment that failed after the fee leg transfers the fee again
\* and settles again every destination the failed attempt had settled.
C32_RetryIsFreshAttempt ==
    [][ /\ EarlyStep =>
             /\ UNCHANGED <<paywallConfigs, paidStatuses, ownedPaywalls,
                            paywallConfigEntries, paidStatusEntries, ownedPaywallsEntries,
                            nextPaywallId, balances>>
             /\ salt' # salt => \E k \in DOMAIN calls : calls[k].pc = "random"
        /\ RetrySettlesAgain ]_vars

\* the repetition of a payment that failed after its first destination was
\* settled has just succeeded: the fee and that destination were paid twice.
C32_Witness ==
    /\ last.op \in PaymentOps /\ last.result = "Ok"
    /\ env.payments = 2
    /\ Len(last.call.log) >= 3
    /\ env.deposits = 1
    /\ \A a \in DepositAmounts : last.call.balance <= a - (last.call.fee_e8s + ledgerFee)
    /\ Balance(last.call.sub) = last.call.balance - Debited(last.call)

-----------------------------------------------------------------------------
(* Funding: an identity asks for its accounts and pays or withdraws, on a   *)
(* canister that has stored one paywall and has no salt yet.  Three calls,   *)
(* two of them in flight at once.                                            *)

FundingCalls == 3      \* calls made in a run

FundingCallers == {"u2", "c1"}

InitFunding ==
    /\ paywallConfigs = Put(EmptyMap, 0, AccountConfig)
    /\ ownedPaywalls = Put(EmptyMap, "u1", <<0>>)
    /\ paidStatuses = EmptyMap
    /\ paywallConfigEntries = <<>>
    /\ paidStatusEntries = <<>>
    /\ ownedPaywallsEntries = <<>>
    /\ nextPaywallId = 1
    /\ salt = <<>>
    /\ now = 0
    /\ balances = EmptyMap
    /\ calls = [k \in 1..AccountCalls |-> Idle]
    /\ last = NoCall
    /\ grants = EmptyMap
    /\ env = [deposits |-> 0, upgrades |-> 0, updates |-> 0, payments |-> 0,
              paywallLimit |-> MaxPaywalls, updateLimit |-> MaxUpdates,
              paymentLimit |-> FundingCalls]

NextFunding ==
    \/ \E k \in DOMAIN calls, u \in FundingCallers :
          AccountBegin(k, "getUserAccount", u, 0, 0)
    \/ \E k \in DOMAIN calls, u \in FundingCallers :
          AccountBegin(k, "getPaymentAccount", u, 0, 0)
    \/ \E k \in DOMAIN calls, u \in FundingCallers, a \in WithdrawAmounts :
          AccountBegin(k, "withdrawFromWallet", u, 0, a)
    \/ \E k \in DOMAIN calls, op \in PaymentOps, u \in FundingCallers :
          PayBegin(k, op, u, 0)
    \/ \E k \in DOMAIN calls : GetSalt(k)
    \/ \E k \in DOMAIN calls, r \in RandomBlobs : SetSalt(k, r)
    \/ \E k \in DOMAIN calls : ReturnAccount(k)
    \/ \E k \in DOMAIN calls, r \in {"Ok", "InsufficientFunds", "TemporarilyUnavailable"} :
          Withdraw(k, r)
    \/ \E k \in DOMAIN calls : ReadBalance(k)
    \/ \E u \in FundingCallers, a \in DepositAmounts :
          Len(salt) # 0 /\ last.result = "account" /\ last.caller = u
          /\ Deposit(last.call.sub, a)

SpecFunding == InitFunding /\ [][NextFunding]_vars

\* the two calls derive for the same purpose: the wallet, or the deposit slot of
\* the same paywall
SameSource(a, b) ==
    \/ WalletPurpose(a) /\ WalletPurpose(b)
    \/ ~WalletPurpose(a) /\ ~WalletPurpose(b) /\ a.paywallId = b.paywallId

\* C33: a payment or withdrawal whose derivation starts after an account was
\* returned to the same identity for the same purpose, and finds the salt in
\* place, draws from the subaccount of the account that was returned.
C33_FundedAccountIsSource ==
    [][ \A k \in DOMAIN calls :
          (/\ calls[k].pc = "getSalt" /\ Len(salt) # 0
           /\ calls'[k] # calls[k]
           /\ calls[k].op \in PaymentOps \cup {"withdrawFromWallet"}
           /\ last.result = "account"
           /\ last.caller = calls[k].caller
           /\ SameSource(last.call, calls[k]))
          => calls'[k].sub = last.call.sub ]_vars

-----------------------------------------------------------------------------
(* Updates during a payment *)

\* the fee, the split and the destinations of the call are those of the config
\* it holds
UsesItsConfig(c) ==
    LET net == c.config.price_e8s - c.fee_e8s
        n == Len(c.config.destinations)
    IN /\ c.pc \in {"fee", "pay", "notify"} => c.fee_e8s = calculateFee(c.config.price_e8s)
       /\ c.log # <<>> => c.log[1].amount = calculateFee(c.config.price_e8s)
       /\ InDeclaredOrder(c)
       /\ \A i \in 1..Len(c.amounts) :
             IF i < n
             THEN IsFloorShare(c.amounts[i], net, c.config.destinations[i].percentage)
             ELSE c.amounts[i] = net - SumSeq(SubSeq(c.amounts, 1, i - 1))

\* C34: a payment call holds the config that was stored for its id when it
\* entered, through every later step; updatePaywall changes no call in flight;
\* the fee, the split amounts and the destinations of the call are those of the
\* config it holds, and so is the session duration of the expiry it writes,
\* also when the store holds another config for the id by then.
C34_ConfigSnapshot ==
    [][ /\ \A k \in DOMAIN calls :
              (calls[k] # Idle /\ calls'[k] # Idle) => calls'[k].config = calls[k].config
        /\ \A k \in DOMAIN calls :
              (calls[k] = Idle /\ calls'[k] # Idle /\ calls'[k].op \in PaymentOps) =>
                 calls'[k].config = paywallConfigs[calls'[k].paywallId]
        /\ UpdateStep => calls' = calls
        /\ \A c \in PaymentCalls' : UsesItsConfig(c)
        /\ \A k \in DOMAIN calls :
              (Returned(k) /\ calls[k].op \in PaymentOps) =>
                 /\ last'.call.config = calls[k].config
                 /\ last'.result = "Ok" =>
                       \A u \in Users, p \in PaywallIds :
                          <<u, p>> = <<calls[k].caller, calls[k].paywallId>> =>
                             Record(u, p)' = <<now + calls[k].config.session_duration_ns>>
      ]_vars

\* a payment has succeeded on the config its call read, after an update replaced
\* the destination list of the paywall while the call was suspended: the legs
\* went to the destinations of the old list, and the expiry has the duration of
\* the config the call holds.
C34_Witness ==
    /\ last.op \in PaymentOps /\ last.result = "Ok"
    /\ paywallConfigs[last.paywallId].destinations # last.call.config.destinations
    /\ Len(paywallConfigs[last.paywallId].destinations) = 1
    /\ Len(Legs(last.call)) = 2
    /\ last.call.log[1].amount = calculateFee(last.call.config.price_e8s)
    /\ Record(last.caller, last.paywallId) = <<now + last.call.config.session_duration_ns>>

-----------------------------------------------------------------------------
(* Destinations whose amount is 0 *)

\* the errors a call returns before any destination is looked at
BeforeSplitErrors ==
    {"Invalid paywall ID", "Paywall price is too low to cover the fee.",
     "Insufficient balance", "Fee transfer failed"}

\* C35: a destination whose split amount is 0 is sent no ledger transfer and no
\* conversion call: every destination transfer carries a positive amount, the
\* transfers are those of the positive amounts in order, and a conversion
\* notification follows a transfer only.  Such a destination is no failure and
\* does not end the loop: a call waits, or fails, at a destination with a
\* positive amount only, and a payment that succeeds has gone through all its
\* destinations, has sent one transfer for each positive amount, and has
\* written its access record.
C35_ZeroShareSkipped ==
    /\ \A c \in PaymentCalls :
          LET legs == Legs(c)
              paid == PaidPositions(c)
          IN /\ \A j \in 1..Len(legs) : legs[j].amount > 0
             /\ Len(legs) <= Len(paid)
             /\ \A j \in 1..Len(legs) : legs[j].amount = c.amounts[paid[j]]
             /\ Len(Notifies(c)) <= Len(legs)
             /\ c.pc \in {"pay", "notify"} =>
                   /\ Len(c.amounts) = c.index + 1
                   /\ c.amounts[c.index + 1] > 0
    /\ (last.op \in PaymentOps /\ last.call # Idle) =>
          LET c == last.call
          IN /\ last.result \notin BeforeSplitErrors \cup {"Ok", "trap"} =>
                   /\ c.amounts # <<>> /\ c.amounts[Len(c.amounts)] > 0
                   /\ c.log[Len(c.log)].reply # "Ok"
             /\ last.result = "Ok" =>
                   /\ Len(c.amounts) = Len(c.config.destinations)
                   /\ Len(Legs(c)) = Len(PaidPositions(c))
                   /\ Record(last.caller, last.paywallId) # <<>>

\* a payment over a first destination of 0 percent and a second of 100 percent
\* succeeded: its only destination transfer is the one to the second.
C35_Witness ==
    /\ last.op \in PaymentOps /\ last.result = "Ok"
    /\ Len(last.call.amounts) = 2
    /\ last.call.amounts[1] = 0 /\ last.call.amounts[2] > 0
    /\ Len(Legs(last.call)) = 1
    /\ Legs(last.call)[1].to = <<last.call.config.destinations[2].destination>>
    /\ Record(last.caller, last.paywallId) # <<>>

-----------------------------------------------------------------------------
(* Payments on a canister that holds records of several identities: two    *)
(* paywalls of u1, access records of u1 for both and of u2 for the second,  *)
(* every wallet and deposit slot funded for one payment.                    *)

FrameConfig == Config(1000001, 1, <<Dest("d1", 50, FALSE), Dest("c1", 50, TRUE)>>)

\* the expiry of the records the canister holds at the start
FrameExpiry == MaxTime + 3

\* ids callers pass: the two stored ones and one that is not stored
FrameIds == {0, 1, 2}

InitFrame ==
    /\ paywallConfigs = [id \in {0, 1} |-> FrameConfig]
    /\ ownedPaywalls = Put(EmptyMap, "u1", <<0, 1>>)
    /\ paidStatuses = Put(Put(EmptyMap, "u1", [id \in {0, 1} |-> FrameExpiry]),
                          "u2", Put(EmptyMap, 1, FrameExpiry))
    /\ paywallConfigEntries = <<>>
    /\ paidStatusEntries = <<>>
    /\ ownedPaywallsEntries = <<>>
    /\ nextPaywallId = 2
    /\ salt = PaySalt
    /\ now = 0
    /\ balances = [sub \in { WalletTable[PaySalt][u] : u \in Users }
                           \cup { DepositTable[PaySalt][id][u] : id \in {0, 1}, u \in Users }
                      |-> requiredBalance(FrameConfig)]
    /\ calls = [k \in 1..PayCalls |-> Idle]
    /\ last = NoCall
    /\ grants = EmptyMap
    /\ env = [deposits |-> 0, upgrades |-> 0, updates |-> 0, payments |-> 0,
              paywallLimit |-> MaxPaywalls, updateLimit |-> MaxUpdates,
              paymentLimit |-> MaxPayments]

NextFrame ==
    \/ \E k \in DOMAIN calls, op \in PaymentOps, u \in Users, id \in FrameIds :
          PayBegin(k, op, u, id)
    \/ \E k \in DOMAIN calls : GetSalt(k)
    \/ \E k \in DOMAIN calls : ReadBalance(k)
    \/ \E k \in DOMAIN calls, r \in {"Ok", "InsufficientFunds", "TemporarilyUnavailable"} :
          SendFee(k, r)
    \/ \E k \in DOMAIN calls, r \in {"Ok", "InsufficientFunds", "TemporarilyUnavailable"} :
          PayDirect(k, r)
    \/ \E k \in DOMAIN calls, r \in {"Ok", "InsufficientFunds", "TemporarilyUnavailable", "none"} :
          PayConvert(k, r)
    \/ \E k \in DOMAIN calls, r \in NotifyReplies : Notify(k, r)
    \/ Tick

SpecFrame == InitFrame /\ [][NextFrame]_vars

\* a step of a payment call: its entry, or a later stage of it
PaymentStep ==
    \/ env'.payments # env.payments
    \/ \E k \in DOMAIN calls : calls[k] # Idle /\ calls[k].op \in PaymentOps
                               /\ calls'[k] # calls[k]

\* C36: a step of a payment call changes no stored config, no ownership list
\* and not the id counter, and the only access record it can change is the one
\* of the caller and the paywall of a call that returns Ok in that step: the
\* records of other identities and the caller's records for other paywalls stay
\* as they are, and no identity other than the caller gets an entry.
C36_PaymentFrame ==
    [][ PaymentStep =>
          /\ UNCHANGED <<paywallConfigs, ownedPaywalls, nextPaywallId, paywallConfigEntries,
                         paidStatusEntries, ownedPaywallsEntries>>
          /\ \A u \in Users, p \in FrameIds :
                Record(u, p)' # Record(u, p) =>
                   \E k \in DOMAIN calls :
                      /\ Returned(k) /\ last'.result = "Ok"
                      /\ calls[k].caller = u /\ calls[k].paywallId = p
          /\ DOMAIN paidStatuses \subseteq DOMAIN paidStatuses'
          /\ \A u \in DOMAIN paidStatuses' \ DOMAIN paidStatuses :
                \E k \in DOMAIN calls : Returned(k) /\ calls[k].caller = u
      ]_vars

\* u1 has paid for the first paywall at time 1 or later: that record is new, u1's
\* record for the second paywall and u2's record are the ones the canister held
\* before; and a payment of u2 has failed after its fee leg without a record.
C36_Witness ==
    /\ last.op \in PaymentOps /\ last.result = "Ok"
    /\ last.caller = "u1" /\ last.paywallId = 0
    /\ now > 0
    /\ Record("u1", 0) = <<now + FrameConfig.session_duration_ns>>
    /\ Record("u1", 1) = <<FrameExpiry>>
    /\ Record("u2", 1) = <<FrameExpiry>>
    /\ Record("u2", 0) = <<>>
    /\ \E sub \in DOMAIN balances :
          sub \in { WalletTable[PaySalt]["u2"], DepositTable[PaySalt][0]["u2"] }
          /\ balances[sub] < requiredBalance(FrameConfig)

-----------------------------------------------------------------------------
(* Enforcement script: the overlay, the tamper flag and the access timers of
   the paywall script in the page of the visitor u2, on the paywall 0.  The
   page (env.page) holds the script's variables; the tasks of the page (its
   click handlers, scheduleAccessTimers and the callbacks of the periodic
   check) are the entries of calls, each at its pending await.  The page's
   body is not empty, and run() has built the overlay and shown it. *)

PageTasks == 2      \* tasks of the page awaiting a reply at once

PageClicks == 3     \* clicks on the login and the pay button in a run

\* tamperReason: null ("none") or the details of the first markTamper
TamperReasons == {"Script integrity check failed", "Dev tools detected"}

NewTask(op, pc) == [op |-> op, caller |-> "u2", paywallId |-> 0, pc |-> pc]

\* the task in slot k ends
TaskDone(k, result) ==
    /\ calls' = [calls EXCEPT ![k] = Idle]
    /\ last' = Completed(calls[k].op, calls[k].caller, calls[k].paywallId, result,
                         NoArg, Idle)

\* setTimeout / setInterval: a new timer, its id is the value returned
SetTimer(page, kind) ==
    [page EXCEPT !.timers = @ \cup {[id |-> page.nextTimerId, kind |-> kind]},
                 !.nextTimerId = @ + 1]

\* clearAccessTimers: clears what the two handles name, and the handles
clearAccessTimers(page) ==
    [page EXCEPT !.timers = { t \in @ : t.id \notin {page.accessTimeoutId,
                                                     page.accessIntervalId} },
                 !.accessTimeoutId = 0,
                 !.accessIntervalId = 0]

\* markTamper(details); the later script version records the first reason
markTamper(page, details) ==
    [page EXCEPT !.tamperDetected = TRUE,
                 !.tamperReason = IF page.version = 2 /\ @ = "none" THEN details ELSE @]

\* showOverlay: paywallActive, the overlay attached, the content hidden and
\* interactions disabled
showOverlay(page) ==
    [page EXCEPT !.paywallActive = TRUE, !.overlayConnected = TRUE,
                 !.interactionsDisabled = TRUE]

\* mutant: revealContent does not look at the tamper flag
revealContent_NoTamperGuard(page) ==
    [page EXCEPT !.paywallActive = FALSE, !.overlayConnected = FALSE,
                 !.interactionsDisabled = FALSE]

\* revealContent: the later version first forgets a 'Dev tools detected' on a
\* mobile user agent; then the overlay stays if tampering was detected, and is
\* removed and the content restored otherwise
revealContent(page) ==
    LET forget == /\ page.version = 2 /\ page.tamperDetected /\ page.mobile
                  /\ page.tamperReason = "Dev tools detected"
        p == IF forget THEN [page EXCEPT !.tamperDetected = FALSE, !.tamperReason = "none"]
             ELSE page
    IN IF p.tamperDetected THEN showOverlay(p)
       ELSE [p EXCEPT !.paywallActive = FALSE, !.overlayConnected = FALSE,
                      !.interactionsDisabled = FALSE]

\* showPaywall up to the awaits of setupPaymentUI: the overlay with the payment
\* controls instead of the login controls
showPaywall(page) ==
    [showOverlay(page) EXCEPT !.loginControls = FALSE, !.paymentUI = TRUE]

\* revealContent(overlay); await scheduleAccessTimers(...): up to the await of
\* getAccessExpiry
RevealAndSchedule(k) ==
    /\ env' = [env EXCEPT !.page = clearAccessTimers(revealContent(env.page))]
    /\ calls' = [calls EXCEPT ![k] = NewTask("scheduleAccessTimers", "getAccessExpiry")]
    /\ UNCHANGED last

\* a click on the login button of the overlay, up to the access check
LoginClick(k) ==
    /\ calls[k].pc = "idle"
    /\ env.page.overlayConnected /\ env.page.loginControls
    /\ env.payments < env.paymentLimit
    /\ env' = [env EXCEPT !.payments = @ + 1]
    /\ calls' = [calls EXCEPT ![k] = NewTask("login", "hasAccess")]
    /\ UNCHANGED <<canister, now, balances, last, grants>>

\* the access check of the login handler answered: authedActor.hasAccess in the
\* first version, pollHasAccess (which takes an error for no access) in the later
LoginHasAccess(k, reply) ==
    /\ calls[k].pc = "hasAccess" /\ calls[k].op = "login"
    /\ reply \in {"ok", "throw"}
    /\ IF reply = "throw" /\ env.page.version = 1
       THEN TaskDone(k, "error") /\ UNCHANGED env
       ELSE IF reply = "ok" /\ hasAccess(calls[k].caller, calls[k].paywallId)
       THEN RevealAndSchedule(k)
       ELSE /\ env' = [env EXCEPT !.page.loginControls = FALSE, !.page.paymentUI = TRUE]
            /\ TaskDone(k, "payment UI")
    /\ UNCHANGED <<canister, now, balances, grants>>

\* a click on 'Pay from balance', which is disabled while a payment is processed
PayClick(k) ==
    /\ calls[k].pc = "idle"
    /\ env.page.overlayConnected /\ env.page.paymentUI
    /\ \A j \in DOMAIN calls : calls[j].pc # "payFromBalance"
    /\ env.payments < env.paymentLimit
    /\ env' = [env EXCEPT !.payments = @ + 1]
    /\ calls' = [calls EXCEPT ![k] = NewTask("pay", "payFromBalance")]
    /\ UNCHANGED <<canister, now, balances, last, grants>>

\* authedActor.payFromBalance answered; on Ok the canister has written the record
PayReply(k, reply) ==
    /\ calls[k].pc = "payFromBalance"
    /\ reply \in {"Ok", "Err", "throw"}
    /\ IF reply = "Ok"
       THEN /\ GrantAccess([caller |-> calls[k].caller, paywallId |-> calls[k].paywallId,
                            config |-> paywallConfigs[calls[k].paywallId]])
            /\ RevealAndSchedule(k)
       ELSE /\ TaskDone(k, reply)
            /\ UNCHANGED <<paidStatuses, grants, env>>
    /\ UNCHANGED <<paywallConfigs, ownedPaywalls, paywallConfigEntries, paidStatusEntries,
                   ownedPaywallsEntries, nextPaywallId, salt, now, balances>>

\* getAccessExpiry answered, and the rest of scheduleAccessTimers: the expiry
\* timeout if time remains, and the periodic check in every case
ScheduleExpiry(k, reply) ==
    /\ calls[k].pc = "getAccessExpiry"
    /\ reply \in {"throw", "null", "expired", "remaining"}
    /\ reply \in {"expired", "remaining"} => Record(calls[k].caller, calls[k].paywallId) # <<>>
    /\ reply = "null" => Record(calls[k].caller, calls[k].paywallId) = <<>>
    /\ LET p0 == env.page
           p1 == IF reply = "remaining"
                 THEN [SetTimer(p0, "timeout") EXCEPT !.accessTimeoutId = p0.nextTimerId]
                 ELSE p0
           p2 == [SetTimer(p1, "interval") EXCEPT !.accessIntervalId = p1.nextTimerId]
       IN env' = [env EXCEPT !.page = p2]
    /\ TaskDone(k, "scheduled")
    /\ UNCHANGED <<canister, now, balances, grants>>

\* the expiry timeout fires, by the clock of the browser: void showPaywall(...)
TimeoutFires(t) ==
    /\ t \in env.page.timers /\ t.kind = "timeout"
    /\ env' = [env EXCEPT !.page = showPaywall([env.page EXCEPT !.timers = @ \ {t}])]
    /\ UNCHANGED <<canister, now, balances, calls, last, grants>>

\* a periodic check starts: the callback of setInterval up to its hasAccess
IntervalTick(t, k) ==
    /\ t \in env.page.timers /\ t.kind = "interval"
    /\ calls[k].pc = "idle"
    /\ calls' = [calls EXCEPT ![k] = NewTask("periodic", "hasAccess")]
    /\ UNCHANGED <<canister, now, balances, last, grants, env>>

\* mutant: a periodic check that finds no access, or fails, leaves the page alone
PeriodicEnd_Silent(k, verdict) ==
    /\ TaskDone(k, verdict)
    /\ UNCHANGED env

\* the end of a periodic check: still access; no access (clearAccessTimers, then
\* showPaywall); or an error (showPaywall)
PeriodicEnd(k, verdict) ==
    /\ TaskDone(k, verdict)
    /\ env' = [env EXCEPT !.page =
                  IF verdict = "access" THEN @
                  ELSE IF verdict = "expired" THEN showPaywall(clearAccessTimers(@))
                  ELSE showPaywall(@)]

\* hasAccess of the periodic check answered; the later version asks again
\* after a second before it takes a no for an answer
PeriodicHasAccess(k, reply) ==
    /\ calls[k].pc = "hasAccess" /\ calls[k].op = "periodic"
    /\ reply \in {"ok", "throw"}
    /\ IF reply = "throw" THEN PeriodicEnd(k, "throw")
       ELSE IF hasAccess(calls[k].caller, calls[k].paywallId) THEN PeriodicEnd(k, "access")
       ELSE IF env.page.version = 1 THEN PeriodicEnd(k, "expired")
       ELSE /\ calls' = [calls EXCEPT ![k] = [calls[k] EXCEPT !.pc = "confirm"]]
            /\ UNCHANGED <<last, env>>
    /\ UNCHANGED <<canister, now, balances, grants>>

\* the second hasAccess of the periodic check of the later version answered
PeriodicConfirm(k, reply) ==
    /\ calls[k].pc = "confirm"
    /\ reply \in {"ok", "throw"}
    /\ IF reply = "throw" THEN PeriodicEnd(k, "throw")
       ELSE IF hasAccess(calls[k].caller, calls[k].paywallId) THEN PeriodicEnd(k, "access")
       ELSE PeriodicEnd(k, "expired")
    /\ UNCHANGED <<canister, now, balances, grants>>

\* runTamperCheck with the answer of checkScriptIntegrity and of detectDevTools;
\* the later version does not look for dev tools on a mobile user agent.  The
\* check is started while the paywall is active and marks after its await of
\* the script's hash, which can be after the content has been revealed.
TamperCheck(integrityOk, devToolsClosed) ==
    /\ ~env.page.tamperDetected
    /\ LET p0 == env.page
           p1 == IF ~integrityOk THEN markTamper(p0, "Script integrity check failed") ELSE p0
           p2 == IF ~(p0.version = 2 /\ p0.mobile) /\ ~devToolsClosed
                 THEN markTamper(p1, "Dev tools detected") ELSE p1
       IN /\ p2 # p0
          /\ env' = [env EXCEPT !.page = p2]
    /\ UNCHANGED <<canister, now, balances, calls, last, grants>>

\* navigator.userAgent changes (device emulation is switched on or off)
SwitchUserAgent ==
    /\ env' = [env EXCEPT !.page.mobile = ~@]
    /\ UNCHANGED <<canister, now, balances, calls, last, grants>>

\* the expiry of the visitor's record when the page has shown its overlay
PageRecords == {<<>>, <<1>>}

InitPage ==
    /\ paywallConfigs = Put(EmptyMap, 0, UpdateBase)
    /\ \E r \in PageRecords :
          paidStatuses = IF r = <<>> THEN EmptyMap
                         ELSE Put(EmptyMap, "u2", Put(EmptyMap, 0, r[1]))
    /\ ownedPaywalls = Put(EmptyMap, "u1", <<0>>)
    /\ paywallConfigEntries = <<>>
    /\ paidStatusEntries = <<>>
    /\ ownedPaywallsEntries = <<>>
    /\ nextPaywallId = 1
    /\ salt = <<>>
    /\ now = 0
    /\ balances = EmptyMap
    /\ calls = [k \in 1..PageTasks |-> Idle]
    /\ last = NoCall
    /\ grants = EmptyMap
    /\ \E version \in {1, 2}, mobile \in BOOLEAN :
          env = [deposits |-> 0, upgrades |-> 0, updates |-> 0, payments |-> 0,
                 paywallLimit |-> MaxPaywalls, updateLimit |-> MaxUpdates,
                 paymentLimit |-> PageClicks,
                 page |-> [version |-> version, mobile |-> mobile,
                           tamperDetected |-> FALSE, tamperReason |-> "none",
                           paywallActive |-> TRUE, overlayConnected |-> TRUE,
                           interactionsDisabled |-> TRUE,
                           loginControls |-> TRUE, paymentUI |-> FALSE,
                           accessTimeoutId |-> 0, accessIntervalId |-> 0,
                           timers |-> {}, nextTimerId |-> 1]]

NextPage ==
    \/ \E k \in DOMAIN calls : LoginClick(k)
    \/ \E k \in DOMAIN calls, reply \in {"ok", "throw"} : LoginHasAccess(k, reply)
    \/ \E k \in DOMAIN calls : PayClick(k)
    \/ \E k \in DOMAIN calls, reply \in {"Ok", "Err", "throw"} : PayReply(k, reply)
    \/ \E k \in DOMAIN calls, reply \in {"throw", "null", "expired", "remaining"} :
          ScheduleExpiry(k, reply)
    \/ \E t \in env.page.timers : TimeoutFires(t)
    \/ \E t \in env.page.timers, k \in DOMAIN calls : IntervalTick(t, k)
    \/ \E k \in DOMAIN calls, reply \in {"ok", "throw"} : PeriodicHasAccess(k, reply)
    \/ \E k \in DOMAIN calls, reply \in {"ok", "throw"} : PeriodicConfirm(k, reply)
    \/ \E integrityOk, devToolsClosed \in BOOLEAN : TamperCheck(integrityOk, devToolsClosed)
    \/ SwitchUserAgent
    \/ Tick

SpecPage == InitPage /\ [][NextPage]_vars

\* the page keeps running: every task gets its reply and every installed
\* interval keeps firing
PageFairness ==
    /\ WF_vars(\E k \in DOMAIN calls, reply \in {"ok", "throw"} : LoginHasAccess(k, reply))
    /\ WF_vars(\E k \in DOMAIN calls, reply \in {"Ok", "Err", "throw"} : PayReply(k, reply))
    /\ WF_vars(\E k \in DOMAIN calls, reply \in {"throw", "null", "expired", "remaining"} :
                  ScheduleExpiry(k, reply))
    /\ WF_vars(\E t \in env.page.timers, k \in DOMAIN calls : IntervalTick(t, k))
    /\ WF_vars(\E k \in DOMAIN calls, reply \in {"ok", "throw"} : PeriodicHasAccess(k, reply))
    /\ WF_vars(\E k \in DOMAIN calls, reply \in {"ok", "throw"} : PeriodicConfirm(k, reply))

SpecPageLive == SpecPage /\ PageFairness

\* the content is revealed and the periodic check of scheduleAccessTimers is
\* installed under its handle
RevealedAndScheduled ==
    /\ ~env.page.overlayConnected /\ ~env.page.paywallActive
    /\ \E t \in env.page.timers : t.kind = "interval" /\ t.id = env.page.accessIntervalId

RevealStep ==
    \E k \in DOMAIN calls :
        /\ calls[k].pc \in {"hasAccess", "payFromBalance"}
        /\ calls'[k].pc = "getAccessExpiry"

\* C38: when revealContent has run and tamperDetected is set, paywallActive is
\* true, the overlay is attached and interactions are disabled; and
\* tamperDetected is cleared only by revealContent of the later version, on a
\* mobile user agent, when the recorded reason is 'Dev tools detected' (so
\* never in the first version).
C38_TamperKeepsOverlay ==
    [][ /\ (RevealStep /\ env'.page.tamperDetected)
           => /\ env'.page.paywallActive
              /\ env'.page.overlayConnected
              /\ env'.page.interactionsDisabled
        /\ (env.page.tamperDetected /\ ~env'.page.tamperDetected)
           => /\ RevealStep
              /\ env.page.version = 2
              /\ env.page.mobile
              /\ env.page.tamperReason = "Dev tools detected" ]_vars

\* a payment has just succeeded (the visitor's record is written, the pay
\* handler is at scheduleAccessTimers) on a page where tampering was detected:
\* the overlay is still attached.
C38_Witness ==
    /\ \E k \in DOMAIN calls : calls[k].pc = "getAccessExpiry"
    /\ env.page.tamperDetected /\ env.page.paymentUI
    /\ hasAccess("u2", 0) /\ grants # EmptyMap
    /\ env.page.overlayConnected /\ env.page.paywallActive /\ env.page.interactionsDisabled
    /\ env.page.timers = {}

\* C39: every running timer of scheduleAccessTimers is named by its handle, so
\* at most one periodic check and at most one expiry timeout are running.
C39_TimersHeld ==
    /\ \A t \in env.page.timers :
          \/ t.kind = "interval" /\ t.id = env.page.accessIntervalId
          \/ t.kind = "timeout" /\ t.id = env.page.accessTimeoutId
    /\ Cardinality({ t \in env.page.timers : t.kind = "interval" }) <= 1
    /\ Cardinality({ t \in env.page.timers : t.kind = "timeout" }) <= 1

=============================================================================
